---- MODULE Spec2Model ----
(***************************************************************************)
(* Dual-view executable memory manager of amiberry-android                 *)
(* (android/app/src/main/jni/android_jit.cpp).                             *)
(*                                                                         *)
(* The machine word and the page are scaled down: size_t / uintptr_t are   *)
(* AddrBits wide and the usual page (4096 bytes in the source) is          *)
(* 2^PageBits bytes.  All arithmetic on sizes and addresses is done modulo *)
(* 2^AddrBits, as the source does it on size_t.                            *)
(***************************************************************************)
EXTENDS Integers, Sequences, FiniteSets, TLC

\* ------------------------------------------------------------------ bounds
AddrBits == 6
PageBits == 2
MaxPages == 4
NThreads == 2
MaxByte == 1

\* ------------------------------------------------------- machine arithmetic
WordMod == 2^AddrBits
Word == 0..(WordMod - 1)
NULL == 0

RECURSIVE BitAndN(_, _, _)
BitAndN(a, b, n) ==
    IF n = 0 THEN 0
    ELSE (IF a % 2 = 1 /\ b % 2 = 1 THEN 1 ELSE 0)
         + 2 * BitAndN(a \div 2, b \div 2, n - 1)

BitAnd(a, b) == BitAndN(a, b, AddrBits)
BitNot(a) == (WordMod - 1) - a
WAdd(a, b) == (a + b) % WordMod
WSub(a, b) == (a - b + WordMod) % WordMod

\* ------------------------------------------------------------ program state
VARIABLES
    g_initialized,   \* static bool g_initialized
    g_page_size,     \* static size_t g_page_size
    by_rw,           \* g_jit_allocations_by_rw : rw base -> JitAllocation
    by_rx,           \* g_jit_allocations_by_rx : rx base -> node of by_rw
    os_page,         \* the kernel's page size
    vm,              \* the process's mappings made here: page base -> fd
    fds,             \* descriptors created here and still open
    last,            \* the last call: operation, arguments, results
    trace,           \* the OS primitives the last call invoked, in order
    restart,         \* 1 after shutdown, 2 after shutdown directly
                     \* followed by init, 0 otherwise
    vmoff,           \* page base -> offset of the page in its memfd
    store,           \* <<fd, offset>> -> the non-zero byte held there
    icache,          \* the addresses for which the instruction cache may
                     \* hold a line older than the last store to the byte
    lock,            \* g_jit_mutex: the thread holding it, or NoThread
    th               \* per thread: the call it is in and its locals

vars == <<g_initialized, g_page_size, by_rw, by_rx, os_page, vm, fds,
          last, trace, restart, vmoff, store, icache, lock, th>>

\* The content of the memory the views show.
mem == <<vmoff, store, icache>>

\* The state only concurrent callers use.
conc == <<lock, th>>

Empty == [x \in {} |-> 0]

\* struct JitAllocation
JitAllocation(rw, rx, size, fd) ==
    [rw_ptr |-> rw, rx_ptr |-> rx, size |-> size, fd |-> fd]

NoRec == JitAllocation(NULL, NULL, 0, -1)

\* ---------------------------------------------------------------- the OS
\* The usual page size and the larger one some devices run with.
OSPageSizes == {2^PageBits, 2^(PageBits + 1)}

\* What sysconf(_SC_PAGESIZE) can report: the kernel's page size, or 0
\* when the value is not available.
ProbeValues(os) == {0, os}

\* Length of a mapping as the kernel sees it: whole pages.
KernelLen(len, os) == ((len + os - 1) \div os) * os

PagesOf(base, len, os) ==
    {base + i * os : i \in 0..((KernelLen(len, os) \div os) - 1)}

\* Page-aligned, non-null bases the kernel may hand out: MaxPages pages
\* above the null page, never the last page of the address space.
MmapWindow(os) ==
    {p * os : p \in {q \in 1..MaxPages : (q + 1) * os < WordMod}}

\* Bases at which mmap(NULL, len, ..) can place a new mapping: len > 0 and
\* all the pages are in the window and not mapped.
MmapChoices(m, len, os) ==
    IF len = 0 THEN {}
    ELSE {b \in MmapWindow(os) :
            /\ PagesOf(b, len, os) \subseteq MmapWindow(os)
            /\ PagesOf(b, len, os) \cap DOMAIN m = {}}

Mmap(m, base, len, fd, os) ==
    [p \in DOMAIN m \cup PagesOf(base, len, os) |->
        IF p \in PagesOf(base, len, os) THEN fd ELSE m[p]]

Munmap(m, base, len, os) ==
    [p \in DOMAIN m \ PagesOf(base, len, os) |-> m[p]]

\* The page an address lies in.
PageOf(a, os) == (a \div os) * os

Restrict(f, S) == [x \in DOMAIN f \cap S |-> f[x]]

\* mmap(.., fd, off): page p of the mapping shows the file from
\* off + (p - base) on.
MmapOff(mo, base, len, off, os) ==
    [p \in DOMAIN mo \cup PagesOf(base, len, os) |->
        IF p \in PagesOf(base, len, os) THEN off + (p - base) ELSE mo[p]]

\* A memfd is created zero-filled; store holds the bytes written since.
ByteAt(st, fd, off) ==
    IF <<fd, off>> \in DOMAIN st THEN st[<<fd, off>>] ELSE 0

\* The file and offset a mapped address shows.
Backing(m, mo, a, os) ==
    <<m[PageOf(a, os)], mo[PageOf(a, os)] + (a - PageOf(a, os))>>

\* A load from a mapped address.
ReadAt(m, mo, st, a, os) ==
    ByteAt(st, Backing(m, mo, a, os)[1], Backing(m, mo, a, os)[2])

\* The other mapped addresses that show the byte address a shows
\* (MAP_SHARED: one page of the file under every mapping of it).
Aliases(m, mo, a, os) ==
    {q + (a - PageOf(a, os)) :
        q \in {p \in DOMAIN m \ {PageOf(a, os)} :
                  /\ m[p] = m[PageOf(a, os)]
                  /\ mo[p] = mo[PageOf(a, os)]}}

\* A store to a mapped address: the byte of the file changes; the
\* instruction cache may hold lines for the aliases of the address, from
\* before the store.
StoreByte(st, fd, off, v) ==
    [k \in DOMAIN st \cup {<<fd, off>>} |->
        IF k = <<fd, off>> THEN v ELSE st[k]]

KeepLines(ic, m, mo, a, os) == ic \cup Aliases(m, mo, a, os)

\* The last close of a memfd with no mapping left drops the file; the
\* kernel drops the cache lines of pages it unmaps.
DropFiles(st, open) == Restrict(st, {k \in DOMAIN st : k[1] \in open})
DropLines(ic, m, os) == {a \in ic : PageOf(a, os) \in DOMAIN m}

\* __builtin___clear_cache(begin, end): no line of [begin, end) is left in
\* the instruction cache.
ClearCache(ic, begin, end) == {a \in ic : ~(a >= begin /\ a < end)}

\* memfd_create returns the lowest descriptor number not in use.
NewFd(open) == CHOOSE n \in 0..Cardinality(open) : n \notin open

Close(open, fd) == open \ {fd}

Call(c, a, n, r) == [c |-> c, a |-> a, n |-> n, r |-> r]

\* ----------------------------------------------------------- the last call
\* op: the operation; size, rw, rx: its arguments (for alloc, rw and rx are
\* the values left in the output slots); ret: the value returned; errno:
\* the error left behind; pre: g_initialized before the call; rec: the
\* record a free removed; again: 0, or for a free repeating the arguments
\* of the free just before it, 1 when that free found no record and 2 when
\* it released one; fresh: an alloc made right after shutdown and init.
Last(op, size, rw, rx, ret, errno, pre, rec, again, fresh) ==
    [op |-> op, size |-> size, rw |-> rw, rx |-> rx, ret |-> ret,
     errno |-> errno, pre |-> pre, rec |-> rec, again |-> again,
     fresh |-> fresh]

\* ----------------------------------------------------------- the threads
\* The threads that call into the module.
Threads == 1..NThreads
NoThread == 0

\* What a thread holds of the call it is in: pc, the position in the
\* function; op, the function; size, rw, rx: the arguments, rw and rx being
\* the output slots of an alloc; fd, len: the locals fd and alloc_size of
\* android_jit_alloc; ret: the value returned.
Local(pc, op, size, rw, rx, fd, len, ret) ==
    [pc |-> pc, op |-> op, size |-> size, rw |-> rw, rx |-> rx, fd |-> fd,
     len |-> len, ret |-> ret]

Idle == Local("idle", "none", 0, NULL, NULL, -1, 0, 0)

\* ------------------------------------------------------------------- Init
Init ==
    /\ g_initialized = FALSE
    /\ g_page_size = 0
    /\ by_rw = Empty
    /\ by_rx = Empty
    /\ os_page \in OSPageSizes
    /\ vm = Empty
    /\ fds = {}
    /\ last = Last("none", 0, NULL, NULL, 0, "", FALSE, NoRec, 0, FALSE)
    /\ trace = << >>
    /\ restart = 0
    /\ vmoff = Empty
    /\ store = Empty
    /\ icache = {}
    /\ lock = NoThread
    /\ th = [t \in Threads |-> Idle]

\* ------------------------------------------------------------ the program
\* MAP_FAILED is (void*)-1.
MAP_FAILED == WordMod - 1

\* Line 60 with the mask ~g_page_size in place of ~(g_page_size - 1).
round_up_mask_is_page(size, page) ==
    BitAnd(WAdd(size, WSub(page, 1)), BitNot(page))

\* The rounding with the mask forgotten.
round_up_without_mask(size, page) == WAdd(size, WSub(page, 1))

\* The rounding with the "- 1" forgotten in the sum.
round_up_one_too_far(size, page) ==
    BitAnd(WAdd(size, page), BitNot(WSub(page, 1)))

\* round_up_to_page: (size + g_page_size - 1) & ~(g_page_size - 1)
round_up_to_page(size, page) ==
    BitAnd(WAdd(size, WSub(page, 1)), BitNot(WSub(page, 1)))

\* The same expression on a word of the given width.
RoundUpAt(size, page, bits) ==
    BitAndN((size + page - 1) % 2^bits,
            (2^bits - 1) - ((page - 1 + 2^bits) % 2^bits), bits)

\* g_page_size = 4096; // Fallback   (the usual page, scaled)
FallbackPageSize == 2^PageBits

\* android_jit_init, lines 70-73: the value cached for a probe result.
ProbedPageSize(probe) == IF probe = 0 THEN FallbackPageSize ELSE probe

\* sysconf(_SC_PAGESIZE) as lines 70 and 284 call it in a running process:
\* the value does not change during the lifetime of the process, so a call
\* made when a page size is cached reports what the call that cached it
\* reported.
Sysconf(os, cached) ==
    {p \in ProbeValues(os) : cached = 0 \/ ProbedPageSize(p) = cached}

MapErase(f, k) == [x \in DOMAIN f \ {k} |-> f[x]]
MapPut(f, k, v) == [x \in DOMAIN f \cup {k} |-> IF x = k THEN v ELSE f[x]]
MinOf(S) == CHOOSE x \in S : \A y \in S : x <= y

\* A value no address equals: the result of reading through a by_rx entry
\* whose node is no longer in by_rw.
Poison == -1

\* it->second->rw_ptr for an entry of by_rx
NodeRw(reg_rw, node) ==
    IF node \in DOMAIN reg_rw THEN reg_rw[node].rw_ptr ELSE Poison

\* The loop of lines 229-240 testing the writable range in place of the
\* executable one.
RECURSIVE RxScanWrongView(_, _, _)
RxScanWrongView(reg_rw, keys, addr) ==
    IF keys = {} THEN NULL
    ELSE LET k == MinOf(keys)
             alloc == reg_rw[k]
         IN  IF addr >= alloc.rw_ptr /\ addr < WAdd(alloc.rw_ptr, alloc.size)
             THEN WAdd(alloc.rw_ptr, WSub(addr, alloc.rx_ptr))
             ELSE RxScanWrongView(reg_rw, keys \ {k}, addr)

\* The loop of android_jit_rx_to_rw (lines 229-240): by_rw in key order,
\* first record whose executable range contains the address.
RECURSIVE RxScan(_, _, _)
RxScan(reg_rw, keys, addr) ==
    IF keys = {} THEN NULL
    ELSE LET k == MinOf(keys)
             alloc == reg_rw[k]
         IN  IF addr >= alloc.rx_ptr /\ addr < WAdd(alloc.rx_ptr, alloc.size)
             THEN WAdd(alloc.rw_ptr, WSub(addr, alloc.rx_ptr))
             ELSE RxScan(reg_rw, keys \ {k}, addr)

\* The loop of lines 259-270 returning the executable base for any address
\* of the range.
RECURSIVE RwScanBaseOnly(_, _, _)
RwScanBaseOnly(reg_rw, keys, addr) ==
    IF keys = {} THEN NULL
    ELSE LET k == MinOf(keys)
             alloc == reg_rw[k]
         IN  IF addr >= alloc.rw_ptr /\ addr < WAdd(alloc.rw_ptr, alloc.size)
             THEN alloc.rx_ptr
             ELSE RwScanBaseOnly(reg_rw, keys \ {k}, addr)

\* The loop of android_jit_rw_to_rx (lines 259-270).
RECURSIVE RwScan(_, _, _)
RwScan(reg_rw, keys, addr) ==
    IF keys = {} THEN NULL
    ELSE LET k == MinOf(keys)
             alloc == reg_rw[k]
         IN  IF addr >= alloc.rw_ptr /\ addr < WAdd(alloc.rw_ptr, alloc.size)
             THEN WAdd(alloc.rx_ptr, WSub(addr, alloc.rw_ptr))
             ELSE RwScan(reg_rw, keys \ {k}, addr)

\* android_jit_rx_to_rw with line 232 testing the lower end only.
RxToRwInNoUpper(reg_rw, reg_rx, addr) ==
    IF addr = NULL THEN NULL
    ELSE IF addr \in DOMAIN reg_rx THEN NodeRw(reg_rw, reg_rx[addr])
    ELSE LET hits == {k \in DOMAIN reg_rw : addr >= reg_rw[k].rx_ptr}
         IN  IF hits = {} THEN NULL
             ELSE WAdd(MinOf(hits), WSub(addr, reg_rw[MinOf(hits)].rx_ptr))

\* android_jit_rx_to_rw on a given registry
RxToRwIn(reg_rw, reg_rx, addr) ==
    IF addr = NULL THEN NULL
    ELSE IF addr \in DOMAIN reg_rx THEN NodeRw(reg_rw, reg_rx[addr])
    ELSE RxScan(reg_rw, DOMAIN reg_rw, addr)

\* android_jit_rw_to_rx with line 262 comparing with <= at the upper end.
RwToRxInInclusive(reg_rw, addr) ==
    IF addr = NULL THEN NULL
    ELSE IF addr \in DOMAIN reg_rw THEN reg_rw[addr].rx_ptr
    ELSE LET hits == {k \in DOMAIN reg_rw :
                         addr >= k /\ addr <= WAdd(k, reg_rw[k].size)}
         IN  IF hits = {} THEN NULL
             ELSE WAdd(reg_rw[MinOf(hits)].rx_ptr, WSub(addr, MinOf(hits)))

\* android_jit_rw_to_rx on a given registry
RwToRxIn(reg_rw, addr) ==
    IF addr = NULL THEN NULL
    ELSE IF addr \in DOMAIN reg_rw THEN reg_rw[addr].rx_ptr
    ELSE RwScan(reg_rw, DOMAIN reg_rw, addr)

rx_to_rw(addr) == RxToRwIn(by_rw, by_rx, addr)
rw_to_rx(addr) == RwToRxIn(by_rw, addr)

\* ---- what an operation that maps or unmaps nothing leaves of the memory,
\* and what is left of it once mappings and files are released
MemAfterRelease(m, open) ==
    /\ vmoff' = Restrict(vmoff, DOMAIN m)
    /\ store' = DropFiles(store, open)
    /\ icache' = DropLines(icache, m, os_page)

\* ---- android_jit_init
\* Line 66 with the test left out.
InitNeverSkips == FALSE

\* Line 66: an initialized subsystem is left as it is.
InitSkips == g_initialized

\* android_jit_init without the early return of lines 66-68 and with the two
\* maps emptied on the way, as lines 97-98 of shutdown empty them.
android_jit_init_resetting ==
    /\ \E probe \in Sysconf(os_page, g_page_size) :
          g_page_size' = ProbedPageSize(probe)
    /\ g_initialized' = TRUE
    /\ by_rw' = Empty
    /\ by_rx' = Empty
    /\ last' = Last("init", 0, NULL, NULL, 0, "", g_initialized, NoRec,
                    0, FALSE)
    /\ trace' = << >>
    /\ restart' = IF restart = 1 THEN 2 ELSE 0
    /\ UNCHANGED <<os_page, vm, fds, mem, conc>>

android_jit_init ==
    /\ IF InitSkips
       THEN UNCHANGED <<g_initialized, g_page_size>>
       ELSE /\ \E probe \in Sysconf(os_page, g_page_size) :
                 g_page_size' = ProbedPageSize(probe)
            /\ g_initialized' = TRUE
    /\ last' = Last("init", 0, NULL, NULL, 0, "", g_initialized, NoRec,
                    0, FALSE)
    /\ trace' = << >>
    /\ restart' = IF restart = 1 THEN 2 ELSE 0
    /\ UNCHANGED <<by_rw, by_rx, os_page, vm, fds, mem, conc>>

\* ---- android_jit_shutdown
\* Lines 85-94 without the close of the handle.
ShutdownReleaseNoClose(m, open, tr, alloc, os) ==
    LET m1 == Munmap(m, alloc.rw_ptr, alloc.size, os)
        m2 == Munmap(m1, alloc.rx_ptr, alloc.size, os)
    IN  [vm |-> m2, fds |-> open,
         trace |-> tr \o << Call("munmap", alloc.rw_ptr, alloc.size, 0),
                            Call("munmap", alloc.rx_ptr, alloc.size, 0) >>]

\* Lines 85-94: one record's views unmapped and its handle closed; tr is
\* the calls made so far.
ShutdownRelease(m, open, tr, alloc, os) ==
    LET m1 == IF alloc.rw_ptr # NULL
              THEN Munmap(m, alloc.rw_ptr, alloc.size, os) ELSE m
        t1 == IF alloc.rw_ptr # NULL
              THEN Append(tr, Call("munmap", alloc.rw_ptr, alloc.size, 0))
              ELSE tr
        m2 == IF alloc.rx_ptr # NULL
              THEN Munmap(m1, alloc.rx_ptr, alloc.size, os) ELSE m1
        t2 == IF alloc.rx_ptr # NULL
              THEN Append(t1, Call("munmap", alloc.rx_ptr, alloc.size, 0))
              ELSE t1
        o3 == IF alloc.fd >= 0 THEN Close(open, alloc.fd) ELSE open
        t3 == IF alloc.fd >= 0
              THEN Append(t2, Call("close", alloc.fd, 0, 0)) ELSE t2
    IN  [vm |-> m2, fds |-> o3, trace |-> t3]

\* The loop of lines 84-95 over by_rw in key order.
RECURSIVE ShutdownSweep(_, _, _, _, _, _)
ShutdownSweep(reg_rw, keys, m, open, tr, os) ==
    IF keys = {} THEN [vm |-> m, fds |-> open, trace |-> tr]
    ELSE LET k == MinOf(keys)
             r == ShutdownRelease(m, open, tr, reg_rw[k], os)
         IN  ShutdownSweep(reg_rw, keys \ {k}, r.vm, r.fds, r.trace, os)

\* Line 97 left out.
ShutdownClearSkipped(reg_rw) == reg_rw

\* Line 97: g_jit_allocations_by_rw.clear()
ShutdownClear(reg_rw) == Empty

\* Line 99 left out.
ShutdownFlagKept == g_initialized

\* Line 99: g_initialized = false
ShutdownFlag == FALSE

android_jit_shutdown ==
    LET s == ShutdownSweep(by_rw, DOMAIN by_rw, vm, fds, << >>, os_page)
    IN  /\ vm' = s.vm
        /\ fds' = s.fds
        /\ trace' = s.trace
        /\ by_rw' = ShutdownClear(by_rw)
        /\ by_rx' = Empty
        /\ g_initialized' = ShutdownFlag
        /\ last' = Last("shutdown", 0, NULL, NULL, 0, "", g_initialized,
                        NoRec, 0, FALSE)
        /\ restart' = 1
        /\ MemAfterRelease(s.vm, s.fds)
        /\ UNCHANGED conc
        /\ UNCHANGED <<g_page_size, os_page>>

\* ---- android_jit_alloc
\* Lines 146-151 without the munmap of the first mapping.
RollbackSecondMapLeak(m, open, rw, len, fd, os) ==
    [vm |-> m, fds |-> Close(open, fd),
     trace |-> << Call("close", fd, 0, 0) >>]

\* Lines 146-151: the second mapping failed.
RollbackSecondMap(m, open, rw, len, fd, os) ==
    [vm |-> Munmap(m, rw, len, os), fds |-> Close(open, fd),
     trace |-> << Call("munmap", rw, len, 0), Call("close", fd, 0, 0) >>]

\* Lines 137-141 and 128-132: the first mapping, or the resize, failed.
RollbackFd(m, open, fd) ==
    [vm |-> m, fds |-> Close(open, fd),
     trace |-> << Call("close", fd, 0, 0) >>]

\* The memfd sized only after the writable view is mapped: the resize
\* fails with a mapping in place, which is then undone.
ResizeFailedAfterMapping(m, open, fd, len, os) ==
    IF MmapChoices(m, len, os) = {}
    THEN [vm |-> m, fds |-> Close(open, fd),
          trace |-> << Call("ftruncate", fd, len, -1),
                       Call("close", fd, 0, 0) >>]
    ELSE [vm |-> m, fds |-> Close(open, fd),
          trace |-> << Call("mmap", fd, len, MinOf(MmapChoices(m, len, os))),
                       Call("ftruncate", fd, len, -1),
                       Call("munmap", MinOf(MmapChoices(m, len, os)), len, 0),
                       Call("close", fd, 0, 0) >>]

\* Lines 128-132: ftruncate fails; no mapping has been asked for yet, the
\* memfd is closed.
ResizeFailed(m, open, fd, len, os) ==
    [vm |-> RollbackFd(m, open, fd).vm,
     fds |-> RollbackFd(m, open, fd).fds,
     trace |-> << Call("ftruncate", fd, len, -1) >>
                  \o RollbackFd(m, open, fd).trace]

\* Line 163 assigning a map that holds the new record only.
StoreRwNewestOnly(reg_rw, rw, rx, size, fd) ==
    MapPut(Empty, rw, JitAllocation(rw, rx, size, fd))

\* Line 163 assigning through the first entry of the map when there is one.
StoreRwOverFirst(reg_rw, rw, rx, size, fd) ==
    IF DOMAIN reg_rw = {}
    THEN MapPut(reg_rw, rw, JitAllocation(rw, rx, size, fd))
    ELSE MapPut(MapPut(reg_rw, MinOf(DOMAIN reg_rw),
                       JitAllocation(rw, rx, size, fd)),
                rw, JitAllocation(rw, rx, size, fd))

\* Lines 153-165: the record stored under both keys.
StoreRw(reg_rw, rw, rx, size, fd) ==
    MapPut(reg_rw, rw, JitAllocation(rw, rx, size, fd))

\* Line 164 keyed by the writable base.
StoreRxKeyedByRw(reg_rx, rw, rx) == MapPut(reg_rx, rw, rw)

\* Line 164 left out.
StoreRxSkip(reg_rx, rw, rx) == reg_rx

StoreRx(reg_rx, rw, rx) == MapPut(reg_rx, rx, rw)

\* errno of a failed mmap: a zero length is EINVAL, else no room.
MmapErrno(len) == IF len = 0 THEN "EINVAL" ELSE "ENOMEM"

AllocFail(size, errno, fresh) ==
    Last("alloc", size, NULL, NULL, -1, errno, g_initialized, NoRec,
         0, fresh)

\* Lines 135-136: the writable view is mapped from offset 0 of the memfd.
RwFileOffset == 0

\* The executable view mapped one page into the file.
RxFileOffsetNextPage == FallbackPageSize

\* Lines 144-145: the executable view is mapped from offset 0 of the same
\* memfd.
RxFileOffset == 0

\* Lines 113-115 left out.
AllocInitSkipped == g_initialized

\* Lines 113-115: after them the subsystem is initialized, by the init
\* made here or by an earlier one.
AllocInitFlag == TRUE

\* Lines 136 and 145 storing each mapped base through its slot at once, a
\* failure afterwards leaving it there.
AllocSlotsSetEarly(rw, rx, ret) ==
    [rw |-> IF rw = MAP_FAILED THEN NULL ELSE rw,
     rx |-> IF rx = MAP_FAILED THEN NULL ELSE rx]

\* Lines 110-111 and 167-168: what *rw_ptr and *rx_ptr hold at the return.
\* Both are nulled before anything is attempted and assigned only on the
\* path that returns 0.
AllocSlots(rw, rx, ret) ==
    IF ret = 0 THEN [rw |-> rw, rx |-> rx] ELSE [rw |-> NULL, rx |-> NULL]

android_jit_alloc(size, slots_ok) ==
    /\ restart' = 0
    /\ UNCHANGED <<os_page, store, icache, conc>>
    /\ IF ~slots_ok
       THEN \* lines 105-108
            /\ last' = AllocFail(size, "EINVAL", restart = 2)
            /\ trace' = << >>
            /\ UNCHANGED <<g_initialized, g_page_size, by_rw, by_rx, vm, fds,
                           vmoff>>
       ELSE \E probe \in (IF g_initialized THEN {g_page_size}
                            ELSE Sysconf(os_page, g_page_size)) :
            \E alloc_size \in {round_up_to_page(size,
                                   IF g_initialized THEN g_page_size
                                   ELSE ProbedPageSize(probe))} :
            \E fd \in {NewFd(fds)} :
            LET page == IF g_initialized THEN g_page_size
                        ELSE ProbedPageSize(probe)
                fresh == (restart = 2)
                open1 == fds \cup {fd}
                c_fd == Call("memfd_create", 0, 0, fd)
                c_tr == Call("ftruncate", fd, alloc_size, 0)
            IN
            /\ g_initialized' = AllocInitFlag
            /\ g_page_size' = page
            /\ \/ \* memfd_create failed
                  /\ last' = AllocFail(size, "EMFILE", fresh)
                  /\ trace' = << Call("memfd_create", 0, 0, -1) >>
                  /\ UNCHANGED <<by_rw, by_rx, vm, fds, vmoff>>
               \/ \* ftruncate failed
                  LET r == ResizeFailed(vm, open1, fd, alloc_size, os_page) IN
                  /\ last' = AllocFail(size, "ENOSPC", fresh)
                  /\ trace' = << c_fd >> \o r.trace
                  /\ vm' = r.vm
                  /\ fds' = r.fds
                  /\ UNCHANGED <<by_rw, by_rx, vmoff>>
               \/ \E rw \in MmapChoices(vm, alloc_size, os_page)
                            \cup {MAP_FAILED} :
                  IF rw = MAP_FAILED
                  THEN LET r == RollbackFd(vm, open1, fd) IN
                       /\ last' = AllocFail(size, MmapErrno(alloc_size), fresh)
                       /\ trace' = << c_fd, c_tr,
                                      Call("mmap", fd, alloc_size, MAP_FAILED) >>
                                    \o r.trace
                       /\ vm' = r.vm
                       /\ fds' = r.fds
                       /\ UNCHANGED <<by_rw, by_rx, vmoff>>
                  ELSE
                  LET vm1 == Mmap(vm, rw, alloc_size, fd, os_page)
                      c_rw == Call("mmap", fd, alloc_size, rw)
                  IN
                  \E rx \in MmapChoices(vm1, alloc_size, os_page)
                            \cup {MAP_FAILED} :
                  IF rx = MAP_FAILED
                  THEN LET r == RollbackSecondMap(vm1, open1, rw, alloc_size,
                                                  fd, os_page)
                            out == AllocSlots(rw, rx, -1) IN
                       /\ last' = [AllocFail(size, MmapErrno(alloc_size),
                                             fresh)
                                      EXCEPT !.rw = out.rw, !.rx = out.rx]
                       /\ trace' = << c_fd, c_tr, c_rw,
                                      Call("mmap", fd, alloc_size, MAP_FAILED) >>
                                    \o r.trace
                       /\ vm' = r.vm
                       /\ fds' = r.fds
                       /\ UNCHANGED <<by_rw, by_rx, vmoff>>
                  ELSE /\ vm' = Mmap(vm1, rx, alloc_size, fd, os_page)
                       /\ vmoff' = MmapOff(MmapOff(vmoff, rw, alloc_size,
                                                   RwFileOffset, os_page),
                                           rx, alloc_size, RxFileOffset,
                                           os_page)
                       /\ fds' = open1
                       /\ by_rw' = StoreRw(by_rw, rw, rx, alloc_size, fd)
                       /\ by_rx' = StoreRx(by_rx, rw, rx)
                       /\ trace' = << c_fd, c_tr, c_rw,
                                      Call("mmap", fd, alloc_size, rx) >>
                       /\ last' = Last("alloc", size,
                                       AllocSlots(rw, rx, 0).rw,
                                       AllocSlots(rw, rx, 0).rx, 0, "",
                                       g_initialized, NoRec, 0, fresh)

\* ---- android_jit_free
\* Lines 195-206 without the munmap of the executable view.
ReleaseAllocKeepsRx(m, open, alloc, os) ==
    [vm |-> Munmap(m, alloc.rw_ptr, alloc.size, os),
     fds |-> Close(open, alloc.fd),
     trace |-> << Call("munmap", alloc.rw_ptr, alloc.size, 0),
                  Call("close", alloc.fd, 0, 0) >>]

\* Lines 195-206: both recorded views unmapped, the recorded handle closed.
ReleaseAlloc(m, open, alloc, os) ==
    LET m1 == IF alloc.rw_ptr # NULL
              THEN Munmap(m, alloc.rw_ptr, alloc.size, os) ELSE m
        t1 == IF alloc.rw_ptr # NULL
              THEN << Call("munmap", alloc.rw_ptr, alloc.size, 0) >>
              ELSE << >>
        m2 == IF alloc.rx_ptr # NULL
              THEN Munmap(m1, alloc.rx_ptr, alloc.size, os) ELSE m1
        t2 == IF alloc.rx_ptr # NULL
              THEN Append(t1, Call("munmap", alloc.rx_ptr, alloc.size, 0))
              ELSE t1
        o3 == IF alloc.fd >= 0 THEN Close(open, alloc.fd) ELSE open
        t3 == IF alloc.fd >= 0
              THEN Append(t2, Call("close", alloc.fd, 0, 0)) ELSE t2
    IN  [vm |-> m2, fds |-> o3, trace |-> t3]

\* Line 209 erasing under the writable base.
EraseRxByRwKey(reg_rx, alloc) == MapErase(reg_rx, alloc.rw_ptr)

\* Line 209 left out.
EraseRxKeep(reg_rx, alloc) == reg_rx

\* Lines 208-210: the record leaves both indexes.
EraseRx(reg_rx, alloc) == MapErase(reg_rx, alloc.rx_ptr)

\* Line 210 left out.
EraseRwKeep(reg_rw, rw_ptr) == reg_rw

EraseRw(reg_rw, rw_ptr) == MapErase(reg_rw, rw_ptr)

\* Line 182 finding the record whose writable range holds rw_ptr.
FreeLookupContaining(reg_rw, rw_ptr) ==
    LET hits == {k \in DOMAIN reg_rw :
                    rw_ptr >= k /\ rw_ptr < WAdd(k, reg_rw[k].size)}
    IN  IF hits = {} THEN NoRec ELSE reg_rw[MinOf(hits)]

\* Line 182: g_jit_allocations_by_rw.find(rw_ptr), NoRec standing for end().
FreeLookup(reg_rw, rw_ptr) ==
    IF rw_ptr \in DOMAIN reg_rw THEN reg_rw[rw_ptr] ELSE NoRec

\* Line 188 turned into a rejection of the call.
FreeFindsStrict(reg_rw, rw_ptr, rx_ptr) ==
    /\ ~(rw_ptr = NULL /\ rx_ptr = NULL)
    /\ FreeLookup(reg_rw, rw_ptr) # NoRec
    /\ FreeLookup(reg_rw, rw_ptr).rx_ptr = rx_ptr

\* Lines 176-186: the call goes past the null check and finds a record.
FreeFinds(reg_rw, rw_ptr, rx_ptr) ==
    /\ ~(rw_ptr = NULL /\ rx_ptr = NULL)
    /\ FreeLookup(reg_rw, rw_ptr) # NoRec

\* Line 188 with the caller's rx_ptr taken for the executable base.
FreeRecordCallerRx(reg_rw, rw_ptr, rx_ptr, size) ==
    [FreeLookup(reg_rw, rw_ptr) EXCEPT !.rx_ptr = rx_ptr]

\* Line 188 with the caller's size taken for the length of the views.
FreeRecordCallerSize(reg_rw, rw_ptr, rx_ptr, size) ==
    [FreeLookup(reg_rw, rw_ptr) EXCEPT !.size = size]

\* Lines 188-193: the record the call releases is the stored one; rx_ptr is
\* only compared with it for the log line, size is not read at all.
FreeRecord(reg_rw, rw_ptr, rx_ptr, size) == FreeLookup(reg_rw, rw_ptr)

android_jit_free(rw_ptr, rx_ptr, size) ==
    LET same == /\ last.op = "free"
                /\ last.rw = rw_ptr
                /\ last.rx = rx_ptr
                /\ last.size = size
        again == IF ~same THEN 0 ELSE IF last.rec = NoRec THEN 1 ELSE 2
    IN
    /\ restart' = 0
    /\ UNCHANGED <<g_initialized, g_page_size, os_page, conc>>
    /\ IF ~FreeFinds(by_rw, rw_ptr, rx_ptr)
       THEN /\ last' = Last("free", size, rw_ptr, rx_ptr, 0, "",
                            g_initialized, NoRec, again, FALSE)
            /\ trace' = << >>
            /\ UNCHANGED <<by_rw, by_rx, vm, fds, mem>>
       ELSE LET alloc == FreeRecord(by_rw, rw_ptr, rx_ptr, size)
                r == ReleaseAlloc(vm, fds, alloc, os_page)
            IN  /\ vm' = r.vm
                /\ fds' = r.fds
                /\ trace' = r.trace
                /\ by_rx' = EraseRx(by_rx, alloc)
                /\ by_rw' = EraseRw(by_rw, rw_ptr)
                /\ MemAfterRelease(r.vm, r.fds)
                /\ last' = Last("free", size, rw_ptr, rx_ptr, 0, "",
                                g_initialized, alloc, again, FALSE)

\* ---- android_jit_rx_to_rw, android_jit_rw_to_rx as calls
\* A lookup that brings the subsystem up first, as android_jit_alloc does
\* in lines 113-115.
rx_to_rw_with_init(rx_ptr) ==
    /\ last' = Last("rx_to_rw", 0, NULL, rx_ptr, rx_to_rw(rx_ptr), "",
                    g_initialized, NoRec, 0, FALSE)
    /\ trace' = << >>
    /\ restart' = 0
    /\ g_initialized' = TRUE
    /\ g_page_size' = IF g_initialized THEN g_page_size
                      ELSE ProbedPageSize(os_page)
    /\ UNCHANGED <<by_rw, by_rx, os_page, vm, fds, mem, conc>>

android_jit_rx_to_rw(rx_ptr) ==
    /\ last' = Last("rx_to_rw", 0, NULL, rx_ptr, rx_to_rw(rx_ptr), "",
                    g_initialized, NoRec, 0, FALSE)
    /\ trace' = << >>
    /\ restart' = 0
    /\ UNCHANGED <<g_initialized, g_page_size, by_rw, by_rx, os_page, vm, fds,
                   mem, conc>>

android_jit_rw_to_rx(rw_ptr) ==
    /\ last' = Last("rw_to_rx", 0, rw_ptr, NULL, rw_to_rx(rw_ptr), "",
                    g_initialized, NoRec, 0, FALSE)
    /\ trace' = << >>
    /\ restart' = 0
    /\ UNCHANGED <<g_initialized, g_page_size, by_rw, by_rx, os_page, vm, fds,
                   mem, conc>>

\* ---- android_jit_flush_cache: no state of this module is touched
\* Line 279 passing the size as the end of the range.
FlushEndIsSize(start, size) == size

\* Line 279: (char*)start + size
FlushEnd(start, size) == WAdd(start, size)

android_jit_flush_cache(start, size) ==
    /\ last' = Last("flush", size, start, NULL, 0, "", g_initialized, NoRec,
                    0, FALSE)
    /\ trace' = << >>
    /\ restart' = 0
    /\ icache' = ClearCache(icache, start, FlushEnd(start, size))
    /\ UNCHANGED <<g_initialized, g_page_size, by_rw, by_rx, os_page, vm, fds,
                   vmoff, store, conc>>

\* ---- android_jit_page_size
android_jit_page_size ==
    /\ IF g_page_size = 0
       THEN \E probe \in Sysconf(os_page, g_page_size) :
                g_page_size' = ProbedPageSize(probe)
       ELSE UNCHANGED g_page_size
    /\ last' = Last("page_size", 0, NULL, NULL, g_page_size', "",
                    g_initialized, NoRec, 0, FALSE)
    /\ trace' = << >>
    /\ restart' = 0
    /\ UNCHANGED <<g_initialized, by_rw, by_rx, os_page, vm, fds, mem, conc>>

\* ------------------------------------------------------------ the callers
\* Sizes a caller asks for: nothing, a byte, a page, a page and a byte, and
\* the largest size_t.
ReqSizes == {0, 1, FallbackPageSize, FallbackPageSize + 1, WordMod - 1}

\* An address that is never a base: the kernel hands out page-aligned
\* addresses.
WildAddr == WordMod - 1

\* The byte after each base in S.
Interior(S) == {WAdd(b, 1) : b \in S}

\* The pairs a shutdown has just released, as their owner still holds them:
\* the two bases and the size of each record unmapped by the call before.
ShutdownPairs ==
    IF last.op # "shutdown" THEN {}
    ELSE {<<trace[i].a, trace[i + 1].a, trace[i].n>> :
             i \in {j \in 1..(Len(trace) - 1) :
                       /\ trace[j].c = "munmap"
                       /\ trace[j + 1].c = "munmap"}}

\* The (rw_ptr, rx_ptr, size) a caller passes to free.  For an open record:
\* its own pair with its size, with size 0 and with a size one byte too
\* large, its writable base with a null
\* or another record's executable base, an interior writable address, the
\* two bases swapped.  Besides: null pointers, a wild address, the
\* arguments of the call before when it was a free, and the pairs a
\* shutdown has just released.
FreeArgs ==
    UNION {
        {<<r.rw_ptr, r.rx_ptr, r.size>>, <<r.rw_ptr, r.rx_ptr, 0>>,
         <<r.rw_ptr, r.rx_ptr, WAdd(r.size, 1)>>,
         <<r.rw_ptr, NULL, r.size>>,
         <<WAdd(r.rw_ptr, 1), r.rx_ptr, r.size>>,
         <<r.rx_ptr, r.rw_ptr, r.size>>,
         <<NULL, r.rx_ptr, r.size>>}
        \cup {<<r.rw_ptr, q.rx_ptr, r.size>> :
                 q \in {by_rw[b] : b \in DOMAIN by_rw}}
        : r \in {by_rw[a] : a \in DOMAIN by_rw}}
    \cup {<<NULL, NULL, 0>>, <<WildAddr, NULL, FallbackPageSize>>}
    \cup (IF last.op = "free" THEN {<<last.rw, last.rx, last.size>>} ELSE {})
    \cup ShutdownPairs

\* Bases the call before has just unmapped.
ReleasedAddrs ==
    {trace[i].a : i \in {j \in 1..Len(trace) : trace[j].c = "munmap"}}

\* Addresses a caller translates from the writable side: null, the recorded
\* writable bases and the byte after each, a base a free just released,
\* every base just unmapped, a wild address.
RwProbeAddrs == {NULL} \cup DOMAIN by_rw \cup Interior(DOMAIN by_rw)
                    \cup ({last.rec.rw_ptr} \ {NULL})
                    \cup ReleasedAddrs \cup {WildAddr}

\* The same from the executable side.
RxProbeAddrs == {NULL} \cup DOMAIN by_rx \cup Interior(DOMAIN by_rx)
                    \cup ({last.rec.rx_ptr} \ {NULL})
                    \cup ReleasedAddrs \cup {WildAddr}

Next ==
    \/ android_jit_init
    \/ android_jit_shutdown
    \/ \E size \in ReqSizes, slots_ok \in BOOLEAN :
          android_jit_alloc(size, slots_ok)
    \/ \E args \in FreeArgs : android_jit_free(args[1], args[2], args[3])
    \/ \E rx_ptr \in RxProbeAddrs : android_jit_rx_to_rw(rx_ptr)
    \/ \E rw_ptr \in RwProbeAddrs : android_jit_rw_to_rx(rw_ptr)
    \/ \E r \in {by_rw[a] : a \in DOMAIN by_rw} :
          android_jit_flush_cache(r.rx_ptr, r.size)
    \/ android_jit_page_size

Spec == Init /\ [][Next]_vars

\* ---- the calls where sysconf fails
\* sysconf's error return, -1, as the assignments of lines 70 and 284
\* convert it to the unsigned g_page_size.
SysconfError == WordMod - 1

\* android_jit_init, lines 63-78, when the sysconf of line 70 fails: the
\* value stored is not 0, so line 71 does not take the fallback.  The
\* failure is the process's answer from the first probe on.
InitProbeError ==
    /\ ~InitSkips
    /\ g_page_size \in {0, SysconfError}
    /\ g_page_size' = ProbedPageSize(SysconfError)
    /\ g_initialized' = TRUE
    /\ last' = Last("init", 0, NULL, NULL, 0, "", g_initialized, NoRec,
                    0, FALSE)
    /\ trace' = << >>
    /\ restart' = IF restart = 1 THEN 2 ELSE 0
    /\ UNCHANGED <<by_rw, by_rx, os_page, vm, fds, mem, conc>>

\* android_jit_page_size, lines 282-290, when the sysconf of line 284
\* fails.
PageSizeProbeError ==
    /\ g_page_size = 0
    /\ g_page_size' = ProbedPageSize(SysconfError)
    /\ last' = Last("page_size", 0, NULL, NULL, g_page_size', "",
                    g_initialized, NoRec, 0, FALSE)
    /\ trace' = << >>
    /\ restart' = 0
    /\ UNCHANGED <<g_initialized, by_rw, by_rx, os_page, vm, fds, mem, conc>>

\* The calls of the API on a system whose sysconf may fail.
NextProbe ==
    \/ Next
    \/ InitProbeError
    \/ PageSizeProbeError

SpecProbe == Init /\ [][NextProbe]_vars

\* ------------------------------------------- the code generator and the CPU
\* The byte values the code generator writes.
Bytes == 1..MaxByte

\* The code generator stores byte v through the writable view.
MemWrite(addr, v) ==
    LET b == Backing(vm, vmoff, addr, os_page) IN
    /\ store' = StoreByte(store, b[1], b[2], v)
    /\ icache' = KeepLines(icache, vm, vmoff, addr, os_page)
    /\ last' = Last("write", 1, addr, NULL, v, "", g_initialized, NoRec, 0,
                    FALSE)
    /\ trace' = << >>
    /\ restart' = 0
    /\ UNCHANGED <<g_initialized, g_page_size, by_rw, by_rx, os_page, vm, fds,
                   vmoff, conc>>

\* What an instruction fetch from a mapped address can deliver: the byte of
\* the file, or whatever an old line holds.
FetchValues(m, mo, st, ic, a, os) ==
    IF a \in ic THEN 0..MaxByte ELSE {ReadAt(m, mo, st, a, os)}

\* Size of the code buffers: within a page.
MemSizes == {1}

\* The code generator writes the first byte of a buffer.
MemOffsets(r) == {0}

\* The ranges flushed: the whole buffer, and the buffer without its first
\* byte.
FlushRanges(r) == {<<r.rx_ptr, r.size>>, <<WAdd(r.rx_ptr, 1), r.size - 1>>}

NextMem ==
    \/ \E size \in MemSizes : android_jit_alloc(size, TRUE)
    \/ \E r \in {by_rw[a] : a \in DOMAIN by_rw} :
          android_jit_free(r.rw_ptr, r.rx_ptr, r.size)
    \/ android_jit_shutdown
    \/ \E r \in {by_rw[a] : a \in DOMAIN by_rw} :
          \E k \in MemOffsets(r), v \in Bytes :
             MemWrite(WAdd(r.rw_ptr, k), v)
    \/ \E r \in {by_rw[a] : a \in DOMAIN by_rw} :
          \E rg \in FlushRanges(r) : android_jit_flush_cache(rg[1], rg[2])

SpecMem == Init /\ [][NextMem]_vars

\* ---------------------------------------------------- concurrent callers
\* Each thread is idle or inside one call.  A call is cut where it takes
\* g_jit_mutex: X_lock is the thread waiting at the lock_guard of function
\* X, X_body the thread inside the guarded scope, which it runs and leaves
\* in one step.  The code outside guarded scopes runs in the steps a_chk
\* (line 113), a_map (lines 118-151), fl_body (lines 277-279) and p_body
\* (lines 283-289).
SetLocal(t, l) == [th EXCEPT ![t] = l]

\* The positions inside a scope guarded by g_jit_mutex.
BodyOf(pc) ==
    CASE pc = "i_lock" -> "i_body"
      [] pc = "s_lock" -> "s_body"
      [] pc = "a_lock" -> "a_store"
      [] pc = "f_lock" -> "f_body"
      [] pc = "l_lock" -> "l_body"

LockPcs == {"i_lock", "s_lock", "a_lock", "f_lock", "l_lock"}

\* What the sequential callers' bookkeeping and the memory content do in a
\* step of a thread.
ConcFrame == UNCHANGED <<os_page, last, trace, restart, mem>>

\* A lock_guard that does not wait for the mutex.
MutexNeverBusy(l) == TRUE

\* std::lock_guard<std::mutex> lock(g_jit_mutex): the constructor returns
\* once no thread holds the mutex.
MutexFree(l) == l = NoThread

\* Lines 64, 81, 155, 180, 220, 250.
Acquire(t) ==
    /\ th[t].pc \in LockPcs
    /\ MutexFree(lock)
    /\ lock' = t
    /\ th' = SetLocal(t, [th[t] EXCEPT !.pc = BodyOf(th[t].pc)])
    /\ UNCHANGED <<g_initialized, g_page_size, by_rw, by_rx, vm, fds>>
    /\ ConcFrame

\* The calls: the caller enters the function.
CallInit(t) ==
    /\ th[t].pc = "idle"
    /\ th' = SetLocal(t, Local("i_lock", "init", 0, NULL, NULL, -1, 0, 0))
    /\ UNCHANGED <<g_initialized, g_page_size, by_rw, by_rx, vm, fds, lock>>
    /\ ConcFrame

CallShutdown(t) ==
    /\ th[t].pc = "idle"
    /\ th' = SetLocal(t, Local("s_lock", "shutdown", 0, NULL, NULL, -1, 0, 0))
    /\ UNCHANGED <<g_initialized, g_page_size, by_rw, by_rx, vm, fds, lock>>
    /\ ConcFrame

\* Lines 105-111: the slots are valid and are set to null.
CallAlloc(t, size) ==
    /\ th[t].pc = "idle"
    /\ th' = SetLocal(t, Local("a_chk", "alloc", size, NULL, NULL, -1, 0, 0))
    /\ UNCHANGED <<g_initialized, g_page_size, by_rw, by_rx, vm, fds, lock>>
    /\ ConcFrame

\* Lines 176-180: one of the pointers is not null.
CallFree(t, rw_ptr, rx_ptr) ==
    /\ th[t].pc = "idle"
    /\ ~(rw_ptr = NULL /\ rx_ptr = NULL)
    /\ th' = SetLocal(t, Local("f_lock", "free", 0, rw_ptr, rx_ptr, -1, 0, 0))
    /\ UNCHANGED <<g_initialized, g_page_size, by_rw, by_rx, vm, fds, lock>>
    /\ ConcFrame

\* Lines 216-220, 246-250: the address is not null.
CallLookup(t, op, addr) ==
    /\ th[t].pc = "idle"
    /\ addr # NULL
    /\ th' = SetLocal(t, IF op = "rw_to_rx"
                         THEN Local("l_lock", op, 0, addr, NULL, -1, 0, 0)
                         ELSE Local("l_lock", op, 0, NULL, addr, -1, 0, 0))
    /\ UNCHANGED <<g_initialized, g_page_size, by_rw, by_rx, vm, fds, lock>>
    /\ ConcFrame

CallFlush(t, start, size) ==
    /\ th[t].pc = "idle"
    /\ th' = SetLocal(t, Local("fl_body", "flush", size, NULL, start, -1, 0,
                               0))
    /\ UNCHANGED <<g_initialized, g_page_size, by_rw, by_rx, vm, fds, lock>>
    /\ ConcFrame

CallPageSize(t) ==
    /\ th[t].pc = "idle"
    /\ th' = SetLocal(t, Local("p_body", "page_size", 0, NULL, NULL, -1, 0, 0))
    /\ UNCHANGED <<g_initialized, g_page_size, by_rw, by_rx, vm, fds, lock>>
    /\ ConcFrame

\* Line 113 reached with the lock_guard of line 155 already taken: the
\* call of android_jit_init is made with the mutex held.
AChkUnderLock(t) ==
    /\ th[t].pc = "a_chk"
    /\ lock = NoThread
    /\ lock' = t
    /\ th' = SetLocal(t, [th[t] EXCEPT
                            !.pc = IF g_initialized THEN "a_map"
                                   ELSE "i_lock"])
    /\ UNCHANGED <<g_initialized, g_page_size, by_rw, by_rx, vm, fds>>
    /\ ConcFrame

\* Line 113: g_initialized is read with the mutex not held; an
\* uninitialized subsystem sends the thread into android_jit_init.
AChk(t) ==
    /\ th[t].pc = "a_chk"
    /\ th' = SetLocal(t, [th[t] EXCEPT
                            !.pc = IF g_initialized THEN "a_map"
                                   ELSE "i_lock"])
    /\ UNCHANGED <<g_initialized, g_page_size, by_rw, by_rx, vm, fds, lock>>
    /\ ConcFrame

\* Lines 66-76 under the mutex; the scope ends and the thread returns to
\* its caller, which is android_jit_alloc or the application.
InitBody(t) ==
    /\ th[t].pc = "i_body"
    /\ IF InitSkips
       THEN UNCHANGED <<g_initialized, g_page_size>>
       ELSE /\ \E probe \in Sysconf(os_page, g_page_size) :
                 g_page_size' = ProbedPageSize(probe)
            /\ g_initialized' = TRUE
    /\ lock' = NoThread
    /\ th' = SetLocal(t, IF th[t].op = "alloc"
                         THEN [th[t] EXCEPT !.pc = "a_map"]
                         ELSE Idle)
    /\ UNCHANGED <<by_rw, by_rx, vm, fds>>
    /\ ConcFrame

\* The kernel places a mapping at the lowest base that fits (or fails).
MmapFirst(m, len, os) ==
    IF MmapChoices(m, len, os) = {} THEN {}
    ELSE {MinOf(MmapChoices(m, len, os))}

\* Lines 118-151, the mutex not held: the page size is read, the memfd is
\* made and sized and both views are mapped; when a system call fails,
\* what was made is undone and the call returns -1.  These lines touch the
\* kernel's state only and are taken as one step.
AMap(t) ==
    LET alloc_size == round_up_to_page(th[t].size, g_page_size)
        fd == NewFd(fds)
    IN
    /\ th[t].pc = "a_map"
    /\ \/ /\ th' = SetLocal(t, Idle)
          /\ UNCHANGED <<vm, fds>>
       \/ \E rw \in MmapFirst(vm, alloc_size, os_page) :
          \E rx \in MmapFirst(Mmap(vm, rw, alloc_size, fd, os_page),
                              alloc_size, os_page) :
             /\ vm' = Mmap(Mmap(vm, rw, alloc_size, fd, os_page),
                           rx, alloc_size, fd, os_page)
             /\ fds' = fds \cup {fd}
             /\ th' = SetLocal(t, Local("a_lock", "alloc", th[t].size, rw,
                                        rx, fd, alloc_size, 0))
    /\ UNCHANGED <<g_initialized, g_page_size, by_rw, by_rx, lock>>
    /\ ConcFrame

\* Lines 155-165 under the mutex, then lines 167-172.
AStore(t) ==
    /\ th[t].pc = "a_store"
    /\ by_rw' = StoreRw(by_rw, th[t].rw, th[t].rx, th[t].len, th[t].fd)
    /\ by_rx' = StoreRx(by_rx, th[t].rw, th[t].rx)
    /\ lock' = NoThread
    /\ th' = SetLocal(t, Idle)
    /\ UNCHANGED <<g_initialized, g_page_size, vm, fds>>
    /\ ConcFrame

\* Lines 82-101 under the mutex.
ShutdownBody(t) ==
    LET s == ShutdownSweep(by_rw, DOMAIN by_rw, vm, fds, << >>, os_page)
    IN  /\ th[t].pc = "s_body"
        /\ vm' = s.vm
        /\ fds' = s.fds
        /\ by_rw' = ShutdownClear(by_rw)
        /\ by_rx' = Empty
        /\ g_initialized' = ShutdownFlag
        /\ lock' = NoThread
        /\ th' = SetLocal(t, Idle)
        /\ UNCHANGED g_page_size
        /\ ConcFrame

\* Lines 182-212 under the mutex.
FreeBody(t) ==
    /\ th[t].pc = "f_body"
    /\ IF ~FreeFinds(by_rw, th[t].rw, th[t].rx)
       THEN UNCHANGED <<by_rw, by_rx, vm, fds>>
       ELSE LET alloc == FreeRecord(by_rw, th[t].rw, th[t].rx, th[t].size)
                r == ReleaseAlloc(vm, fds, alloc, os_page)
            IN  /\ vm' = r.vm
                /\ fds' = r.fds
                /\ by_rx' = EraseRx(by_rx, alloc)
                /\ by_rw' = EraseRw(by_rw, th[t].rw)
    /\ lock' = NoThread
    /\ th' = SetLocal(t, Idle)
    /\ UNCHANGED <<g_initialized, g_page_size>>
    /\ ConcFrame

\* Lines 222-242, 252-272 under the mutex: the maps are read and the result
\* goes back to the caller.
LookupBody(t) ==
    /\ th[t].pc = "l_body"
    /\ \E ret \in {IF th[t].op = "rw_to_rx" THEN rw_to_rx(th[t].rw)
                   ELSE rx_to_rw(th[t].rx)} :
          th' = SetLocal(t, Idle)
    /\ lock' = NoThread
    /\ UNCHANGED <<g_initialized, g_page_size, by_rw, by_rx, vm, fds>>
    /\ ConcFrame

\* A flush that waits for the mutex.
FlushNeedsMutex(l) == l = NoThread

\* Lines 275-280: android_jit_flush_cache has no lock_guard.
FlushNeeds(l) == TRUE

\* Lines 277-279.
FlushBody(t) ==
    /\ th[t].pc = "fl_body"
    /\ FlushNeeds(lock)
    /\ th' = SetLocal(t, [th[t] EXCEPT !.pc = "fl_done"])
    /\ UNCHANGED <<g_initialized, g_page_size, by_rw, by_rx, vm, fds, lock>>
    /\ ConcFrame

\* Line 280.
FlushReturn(t) ==
    /\ th[t].pc = "fl_done"
    /\ th' = SetLocal(t, Idle)
    /\ UNCHANGED <<g_initialized, g_page_size, by_rw, by_rx, vm, fds, lock>>
    /\ ConcFrame

\* Lines 283-289, the mutex not held.
PageSizeBody(t) ==
    /\ th[t].pc = "p_body"
    /\ IF g_page_size = 0
       THEN \E probe \in Sysconf(os_page, g_page_size) :
                g_page_size' = ProbedPageSize(probe)
       ELSE UNCHANGED g_page_size
    /\ th' = SetLocal(t, Idle)
    /\ UNCHANGED <<g_initialized, by_rw, by_rx, vm, fds, lock>>
    /\ ConcFrame

\* The size concurrent callers ask for: within a page.
ConcSizes == {1}

NextConc ==
    \E t \in Threads :
        \/ CallInit(t)
        \/ CallShutdown(t)
        \/ \E size \in ConcSizes : CallAlloc(t, size)
        \/ \E r \in {by_rw[a] : a \in DOMAIN by_rw} :
              CallFree(t, r.rw_ptr, r.rx_ptr)
        \/ \E r \in {by_rw[a] : a \in DOMAIN by_rw} :
              CallLookup(t, "rw_to_rx", r.rw_ptr)
        \/ \E r \in {by_rw[a] : a \in DOMAIN by_rw} :
              CallLookup(t, "rx_to_rw", r.rx_ptr)
        \/ \E r \in {by_rw[a] : a \in DOMAIN by_rw} :
              CallFlush(t, r.rx_ptr, r.size)
        \/ CallPageSize(t)
        \/ Acquire(t)
        \/ AChk(t)
        \/ InitBody(t)
        \/ AMap(t)
        \/ AStore(t)
        \/ ShutdownBody(t)
        \/ FreeBody(t)
        \/ LookupBody(t)
        \/ FlushBody(t)
        \/ FlushReturn(t)
        \/ PageSizeBody(t)

SpecConc == Init /\ [][NextConc]_vars

\* The steps a thread inside a call takes on its own: everything but the
\* entry into a call and the wait at a lock_guard.
Proceed(t) ==
    \/ AChk(t)
    \/ InitBody(t)
    \/ AMap(t)
    \/ AStore(t)
    \/ ShutdownBody(t)
    \/ FreeBody(t)
    \/ LookupBody(t)
    \/ FlushBody(t)
    \/ FlushReturn(t)
    \/ PageSizeBody(t)

\* The scheduler runs every thread that can run, and a thread waiting at a
\* lock_guard gets the mutex when it is released again and again.  Nothing
\* makes the application call.
SpecConcFair ==
    /\ SpecConc
    /\ \A t \in Threads : WF_vars(Proceed(t)) /\ SF_vars(Acquire(t))

\* ================================================================ claims
Records == {by_rw[a] : a \in DOMAIN by_rw}
Offsets(r) == 0..(r.size - 1)

\* C1: for every open allocation of recorded size N and every 0 <= k < N,
\* rw_to_rx(writable_base + k) is executable_base + k and
\* rx_to_rw(executable_base + k) is writable_base + k; at k = 0 the
\* containment scan gives the same answer as the exact-base lookup.
C1_InteriorTranslation ==
    \A r \in Records :
        /\ \A k \in Offsets(r) :
              /\ rw_to_rx(WAdd(r.rw_ptr, k)) = WAdd(r.rx_ptr, k)
              /\ rx_to_rw(WAdd(r.rx_ptr, k)) = WAdd(r.rw_ptr, k)
        /\ RwScan(by_rw, DOMAIN by_rw, r.rw_ptr) = rw_to_rx(r.rw_ptr)
        /\ RxScan(by_rw, DOMAIN by_rw, r.rx_ptr) = rx_to_rw(r.rx_ptr)

\* Two open allocations of more than one byte whose executable views lie
\* in the opposite order of their writable views.
C1_Witness ==
    \E a, b \in DOMAIN by_rw :
        /\ a < b
        /\ by_rw[a].rx_ptr > by_rw[b].rx_ptr
        /\ by_rw[a].size > 1
        /\ by_rw[b].size > 1

\* C2: translation round-trips on every base or interior address of either
\* view of an open allocation, in every reachable registry state.
C2_RoundTrip ==
    \A r \in Records : \A k \in Offsets(r) :
        LET x == WAdd(r.rx_ptr, k)
            y == WAdd(r.rw_ptr, k)
        IN  /\ rw_to_rx(rx_to_rw(x)) = x
            /\ rx_to_rw(rw_to_rx(y)) = y

\* A free has released one allocation and another one is still open.
C2_Witness ==
    /\ last.op = "free"
    /\ last.rec # NoRec
    /\ \E r \in Records : r.size > FallbackPageSize

\* Every descriptor and mapping a call created, it also released.
TraceBalanced(tr) ==
    /\ \A i \in 1..Len(tr) :
          (tr[i].c = "memfd_create" /\ tr[i].r >= 0) =>
              \E j \in (i + 1)..Len(tr) : tr[j].c = "close" /\ tr[j].a = tr[i].r
    /\ \A i \in 1..Len(tr) :
          (tr[i].c = "mmap" /\ tr[i].r # MAP_FAILED) =>
              \E j \in (i + 1)..Len(tr) :
                  tr[j].c = "munmap" /\ tr[j].a = tr[i].r /\ tr[j].n = tr[i].n

\* C3: an allocate that returns an error has released every mapping and
\* handle it created and leaves both indexes, the mappings and the open
\* handles as they were before the call.
C3_AllocFailsAtomically ==
    [][(last'.op = "alloc" /\ last'.ret = -1) =>
          /\ by_rw' = by_rw
          /\ by_rx' = by_rx
          /\ vm' = vm
          /\ fds' = fds
          /\ TraceBalanced(trace')
          /\ last'.rw = NULL
          /\ last'.rx = NULL]_vars

\* An allocate whose second mapping failed while another allocation is open.
C3_Witness ==
    /\ last.op = "alloc"
    /\ last.ret = -1
    /\ Len(trace) = 6
    /\ trace[3].c = "mmap" /\ trace[3].r # MAP_FAILED
    /\ trace[4].c = "mmap" /\ trace[4].r = MAP_FAILED
    /\ by_rw # Empty

\* C4: once free has released an allocation, both translations return
\* not-found on every address of both of its views.
C4_FreedNotFound ==
    (last.op = "free" /\ last.rec # NoRec) =>
        \A k \in Offsets(last.rec) :
            /\ rw_to_rx(WAdd(last.rec.rw_ptr, k)) = NULL
            /\ rx_to_rw(WAdd(last.rec.rw_ptr, k)) = NULL
            /\ rw_to_rx(WAdd(last.rec.rx_ptr, k)) = NULL
            /\ rx_to_rw(WAdd(last.rec.rx_ptr, k)) = NULL

\* A free released an allocation while another one stays open.
C4_Witness ==
    /\ last.op = "free"
    /\ last.rec # NoRec
    /\ last.rec.size > 1
    /\ by_rw # Empty

\* C5: a free repeating the arguments of the free just before it calls no
\* OS primitive and leaves both indexes, the mappings and the handles as
\* they are.
C5_SecondFreeNoOp ==
    [][(last'.op = "free" /\ last'.again # 0) =>
          /\ trace' = << >>
          /\ by_rw' = by_rw
          /\ by_rx' = by_rx
          /\ vm' = vm
          /\ fds' = fds]_vars

\* The free of an open allocation was repeated while another is open.
C5_Witness ==
    /\ last.op = "free"
    /\ last.again = 2
    /\ by_rw # Empty
    /\ vm # Empty

\* C6: when shutdown returns, both views of every allocation that was
\* recorded are unmapped, its handle is released and both indexes are
\* empty, however many allocations were still open.
C6_ShutdownFreesAll ==
    [][(last'.op = "shutdown") =>
          /\ \A r \in Records :
                /\ PagesOf(r.rw_ptr, r.size, os_page) \cap DOMAIN vm' = {}
                /\ PagesOf(r.rx_ptr, r.size, os_page) \cap DOMAIN vm' = {}
                /\ r.fd \notin fds'
          /\ by_rw' = Empty
          /\ by_rx' = Empty]_vars

\* A shutdown that found two allocations open: six OS calls.
C6_Witness ==
    /\ last.op = "shutdown"
    /\ Len(trace) = 6
    /\ vm = Empty
    /\ fds = {}

\* C7: shutdown leaves the subsystem Uninitialized, from either state.
C7_ShutdownUninitializes ==
    (last.op = "shutdown") => ~g_initialized

\* A shutdown called on an Initialized subsystem.
C7_Witness ==
    /\ last.op = "shutdown"
    /\ last.pre
    /\ ~g_initialized

\* C8: init on an Initialized subsystem returns 0 and changes neither the
\* lifecycle state, the cached page size, the registry nor the resources.
C8_InitIdempotent ==
    [][(last'.op = "init" /\ g_initialized) =>
          /\ last'.ret = 0
          /\ g_initialized' = g_initialized
          /\ g_page_size' = g_page_size
          /\ by_rw' = by_rw
          /\ by_rx' = by_rx
          /\ vm' = vm
          /\ fds' = fds]_vars

\* init was called while Initialized with an allocation open.
C8_Witness ==
    /\ last.op = "init"
    /\ last.pre
    /\ g_initialized
    /\ by_rw # Empty

\* No OS primitive of the call reported a failure.
TraceOK(tr) ==
    \A i \in 1..Len(tr) :
        /\ tr[i].r # -1
        /\ ~(tr[i].c = "mmap" /\ tr[i].r = MAP_FAILED)

InRange(addr, base, size) == addr >= base /\ addr < base + size

\* C9: an allocate made right after shutdown and init, whose OS primitives
\* all succeed, succeeds; its record is the only one in either index and
\* every address translates through it or not at all.
C9_UsableAfterRestart ==
    (last.op = "alloc" /\ last.fresh /\ trace # << >> /\ TraceOK(trace)) =>
        /\ last.ret = 0
        /\ g_initialized
        /\ DOMAIN by_rw = {last.rw}
        /\ DOMAIN by_rx = {last.rx}
        /\ by_rx[last.rx] = last.rw
        /\ by_rw[last.rw].rw_ptr = last.rw
        /\ by_rw[last.rw].rx_ptr = last.rx
        /\ \A addr \in Word :
              LET n == by_rw[last.rw].size IN
              /\ rw_to_rx(addr) =
                    IF InRange(addr, last.rw, n)
                    THEN last.rx + (addr - last.rw) ELSE NULL
              /\ rx_to_rw(addr) =
                    IF InRange(addr, last.rx, n)
                    THEN last.rw + (addr - last.rx) ELSE NULL

\* An allocate right after shutdown and init succeeded.
C9_Witness ==
    /\ last.op = "alloc"
    /\ last.fresh
    /\ last.ret = 0
    /\ Cardinality(DOMAIN by_rw) = 1

\* round_up(size, page) in unbounded arithmetic.
CeilTo(n, p) == ((n + p - 1) \div p) * p

\* C10: a successful allocate leaves two distinct non-null addresses and a
\* record whose size is the request rounded up to a whole number of pages,
\* both ranges being mapped on the record's handle; an allocate of a
\* positive size fails only when an OS primitive fails.  With 4096-byte
\* pages the rounding of 100 is 4096.
C10_AllocRoundsToPage ==
    /\ (last.op = "alloc" /\ last.ret = 0) =>
          /\ last.rw # NULL
          /\ last.rx # NULL
          /\ last.rw # last.rx
          /\ last.rw \in DOMAIN by_rw
          /\ LET r == by_rw[last.rw] IN
                /\ r.rw_ptr = last.rw
                /\ r.rx_ptr = last.rx
                /\ r.size = CeilTo(last.size, g_page_size)
                /\ r.size >= last.size
                /\ r.fd \in fds
                /\ \A p \in PagesOf(r.rw_ptr, r.size, os_page)
                          \cup PagesOf(r.rx_ptr, r.size, os_page) :
                      p \in DOMAIN vm /\ vm[p] = r.fd
                /\ PagesOf(r.rw_ptr, r.size, os_page)
                      \cap PagesOf(r.rx_ptr, r.size, os_page) = {}
    /\ (last.op = "alloc" /\ last.ret = -1 /\ trace # << >>) =>
          ~TraceOK(trace)
    /\ (last.op = "alloc") =>
          /\ RoundUpAt(100, 4096, 24) = 4096
          /\ RoundUpAt(last.size, g_page_size, AddrBits)
                = round_up_to_page(last.size, g_page_size)

\* A request of one byte gave a one-page dual mapping.
C10_Witness ==
    /\ last.op = "alloc"
    /\ last.ret = 0
    /\ last.size = 1
    /\ g_page_size = FallbackPageSize
    /\ by_rw[last.rw].size = FallbackPageSize

\* C11: an address outside the writable ranges of all open allocations has
\* no executable translation, and one outside all executable ranges has no
\* writable translation; in particular the address one past the end of a
\* range (base + size) is not found unless another open allocation contains
\* it.
C11_OutsideNotFound ==
    /\ \A addr \in Word :
          /\ (\A r \in Records : ~InRange(addr, r.rw_ptr, r.size))
                => rw_to_rx(addr) = NULL
          /\ (\A r \in Records : ~InRange(addr, r.rx_ptr, r.size))
                => rx_to_rw(addr) = NULL
    /\ \A r \in Records :
          LET we == WAdd(r.rw_ptr, r.size)
              xe == WAdd(r.rx_ptr, r.size)
          IN  /\ (\A q \in Records \ {r} : ~InRange(we, q.rw_ptr, q.size))
                    => rw_to_rx(we) = NULL
              /\ (\A q \in Records \ {r} : ~InRange(xe, q.rx_ptr, q.size))
                    => rx_to_rw(xe) = NULL

\* Two open allocations, the writable range of one ending where no range
\* begins, the executable range of the other ending where a range begins.
C11_Witness ==
    \E r, q \in Records :
        /\ r # q
        /\ \A p \in Records : ~InRange(WAdd(r.rw_ptr, r.size), p.rw_ptr, p.size)
        /\ rw_to_rx(WAdd(r.rw_ptr, r.size)) = NULL
        /\ \E p \in Records : p.rx_ptr = WAdd(q.rx_ptr, q.size)

\* C12: with two open allocations A and B, an address strictly inside A, in
\* either view, translates to the same offset of A's opposite view, and the
\* result lies in no range of B.
C12_NoCrossResolve ==
    \A A, B \in Records :
        A # B =>
        \A k \in 1..(A.size - 1) :
            LET x == rw_to_rx(WAdd(A.rw_ptr, k))
                w == rx_to_rw(WAdd(A.rx_ptr, k))
            IN  /\ x = WAdd(A.rx_ptr, k)
                /\ w = WAdd(A.rw_ptr, k)
                /\ ~InRange(x, B.rx_ptr, B.size)
                /\ ~InRange(w, B.rw_ptr, B.size)

\* Two open allocations whose bases are ordered one way in the writable view
\* and the other way in the executable view, the one created later (it holds
\* the later handle) at the lower writable base; a lookup strictly inside
\* the later one has just returned.
C12_Witness ==
    \E A, B \in Records :
        /\ A.fd < B.fd
        /\ B.rw_ptr < A.rw_ptr
        /\ A.rx_ptr < B.rx_ptr
        /\ last.op = "rx_to_rw"
        /\ last.rx = WAdd(B.rx_ptr, 1)
        /\ last.ret = WAdd(B.rw_ptr, 1)

\* C13: a free whose rw_ptr is not the writable base of an open record
\* (null, wild, interior, an executable base, a base already freed) changes
\* neither index, no mapping and no handle, makes no system call, and
\* returns.
C13_UnknownFreeNoOp ==
    [][(last'.op = "free" /\ last'.rw \notin DOMAIN by_rw)
         => /\ UNCHANGED <<by_rw, by_rx, vm, fds, g_initialized, g_page_size>>
            /\ trace' = << >>
            /\ last'.rec = NoRec
            /\ last'.ret = 0
            /\ last'.errno = ""]_vars

\* A free just returned that was handed the executable base of an open
\* record as rw_ptr and its writable base as rx_ptr.
C13_Witness ==
    /\ last.op = "free"
    /\ \E r \in Records : last.rw = r.rx_ptr /\ last.rx = r.rw_ptr
    /\ last.rw \notin DOMAIN by_rw
    /\ last.rec = NoRec

\* C14: a free with the writable base of an open record and an rx_ptr other
\* than the recorded one goes through on the recorded values: both recorded
\* views are unmapped, the recorded handle is closed, and the record leaves
\* both indexes.
C14_MismatchedFreeCompletes ==
    [][(/\ last'.op = "free"
        /\ last'.rw \in DOMAIN by_rw
        /\ last'.rx # by_rw[last'.rw].rx_ptr)
         => LET alloc == by_rw[last'.rw] IN
            /\ last'.rec = alloc
            /\ last'.ret = 0
            /\ trace' = << Call("munmap", alloc.rw_ptr, alloc.size, 0),
                           Call("munmap", alloc.rx_ptr, alloc.size, 0),
                           Call("close", alloc.fd, 0, 0) >>
            /\ vm' = Munmap(Munmap(vm, alloc.rw_ptr, alloc.size, os_page),
                            alloc.rx_ptr, alloc.size, os_page)
            /\ \A p \in PagesOf(alloc.rw_ptr, alloc.size, os_page)
                    \cup PagesOf(alloc.rx_ptr, alloc.size, os_page) :
                  p \notin DOMAIN vm'
            /\ fds' = fds \ {alloc.fd}
            /\ by_rw' = MapErase(by_rw, alloc.rw_ptr)
            /\ by_rx' = MapErase(by_rx, alloc.rx_ptr)]_vars

\* A free just released a record although it was handed the executable base
\* of another open record, which is still open.
C14_Witness ==
    /\ last.op = "free"
    /\ last.rec # NoRec
    /\ last.rw = last.rec.rw_ptr
    /\ last.rx # last.rec.rx_ptr
    /\ last.rx \in DOMAIN by_rx
    /\ last.rec.rw_ptr \notin DOMAIN by_rw

\* The failure of a system call of the backing store or of a mapping shows
\* in the calls an operation made.
OsFailure(tr) ==
    \E i \in 1..Len(tr) :
        \/ tr[i].c \in {"memfd_create", "ftruncate"} /\ tr[i].r = -1
        \/ tr[i].c = "mmap" /\ tr[i].r = MAP_FAILED

\* C15: an alloc handed a null output slot (the one alloc that makes no
\* system call) or size zero fails with EINVAL raised as an argument error,
\* that is, with no failed backing-store or mapping call behind it, and
\* leaves both indexes unchanged.
C15_InvalidArgument ==
    [][(last'.op = "alloc" /\ (trace' = << >> \/ last'.size = 0))
         => /\ last'.ret = -1
            /\ last'.errno = "EINVAL"
            /\ ~OsFailure(trace')
            /\ UNCHANGED <<by_rw, by_rx>>]_vars

\* C20: a lookup, whatever the address and whether or not the subsystem is
\* initialized, changes neither index, the lifecycle flag, the page size,
\* any mapping or any handle, makes no system call, sets no error, and
\* returns null or an address inside an open range of the opposite view.
C20_LookupsArePure ==
    [][(last'.op \in {"rw_to_rx", "rx_to_rw"})
         => /\ UNCHANGED <<by_rw, by_rx, g_initialized, g_page_size, vm, fds>>
            /\ trace' = << >>
            /\ last'.errno = ""
            /\ last'.ret \in Word
            /\ last'.op = "rw_to_rx" /\ last'.ret # NULL
                 => \E r \in Records : InRange(last'.ret, r.rx_ptr, r.size)
            /\ last'.op = "rx_to_rw" /\ last'.ret # NULL
                 => \E r \in Records : InRange(last'.ret, r.rw_ptr, r.size)]_vars

\* A lookup of a non-null address not found, made while the subsystem is
\* uninitialized.
C20_Witness ==
    /\ last.op = "rx_to_rw"
    /\ ~g_initialized
    /\ last.rx # NULL
    /\ last.ret = NULL
    /\ by_rw = Empty

\* The byte a load from a mapped address delivers, and the bytes an
\* instruction fetch from it can deliver.
ByteSeen(a) == ReadAt(vm, vmoff, store, a, os_page)
Fetched(a) == FetchValues(vm, vmoff, store, icache, a, os_page)

\* The same after a step.
ByteSeenNext(a) == ReadAt(vm', vmoff', store', a, os_page)
FetchedNext(a) == FetchValues(vm', vmoff', store', icache', a, os_page)

\* C17: for every open allocation and every offset below its size the byte
\* read at rw_ptr + k is the byte read at rx_ptr + k; a byte stored at
\* rw_ptr + k is the byte then read at rx_ptr + k, and the store changes no
\* byte seen through either view of any other open allocation.
C17_SameBytes ==
    /\ [](\A r \in Records : \A k \in Offsets(r) :
            ByteSeen(WAdd(r.rw_ptr, k)) = ByteSeen(WAdd(r.rx_ptr, k)))
    /\ [][last'.op = "write"
            => \A r \in Records :
                 IF InRange(last'.rw, r.rw_ptr, r.size)
                 THEN ByteSeenNext(WAdd(r.rx_ptr, WSub(last'.rw, r.rw_ptr)))
                         = last'.ret
                 ELSE \A k \in Offsets(r) :
                        /\ ByteSeenNext(WAdd(r.rw_ptr, k))
                              = ByteSeen(WAdd(r.rw_ptr, k))
                        /\ ByteSeenNext(WAdd(r.rx_ptr, k))
                              = ByteSeen(WAdd(r.rx_ptr, k))]_vars

\* A byte has just been stored through the writable view of one of two open
\* allocations: it shows in the executable view of that one and not in the
\* other.
C17_Witness ==
    \E r, q \in Records :
        /\ r # q
        /\ last.op = "write"
        /\ last.rw = r.rw_ptr
        /\ ByteSeen(r.rx_ptr) = last.ret
        /\ ByteSeen(q.rx_ptr) # last.ret
        /\ ByteSeen(q.rw_ptr) # last.ret

\* C18: when a flush returns, an instruction fetch from any address of the
\* flushed range that lies in an open executable view delivers the byte last
\* stored at the same offset of the writable view; an executable address
\* comes to hold a possibly older line only by a store to its byte, and
\* while it holds none a fetch from it delivers the byte last stored.
C18_FlushMakesVisible ==
    /\ [](\A r \in Records : \A k \in Offsets(r) :
            WAdd(r.rx_ptr, k) \notin icache
               => Fetched(WAdd(r.rx_ptr, k)) = {ByteSeen(WAdd(r.rw_ptr, k))})
    /\ [][/\ last'.op = "flush"
               => \A r \in Records : \A k \in Offsets(r) :
                    InRange(WAdd(r.rx_ptr, k), last'.rw, last'.size)
                       => FetchedNext(WAdd(r.rx_ptr, k))
                             = {ByteSeenNext(WAdd(r.rw_ptr, k))}
          /\ \A a \in icache' \ icache :
                /\ last'.op = "write"
                /\ \E r \in Records :
                      /\ InRange(last'.rw, r.rw_ptr, r.size)
                      /\ a = WAdd(r.rx_ptr, WSub(last'.rw, r.rw_ptr))]_vars

\* A flush of the whole executable range of an allocation has returned; the
\* byte stored at its writable base is what a fetch from its executable base
\* delivers, while the first byte of another allocation, stored and not
\* flushed, may still be fetched stale.
C18_Witness ==
    \E r, q \in Records :
        /\ r # q
        /\ last.op = "flush"
        /\ last.rw = r.rx_ptr
        /\ last.size = r.size
        /\ ByteSeen(r.rw_ptr) # 0
        /\ Fetched(r.rx_ptr) = {ByteSeen(r.rw_ptr)}
        /\ q.rx_ptr \in icache

\* The threads inside a scope guarded by g_jit_mutex, and those about to
\* read or write g_jit_allocations_by_rw or g_jit_allocations_by_rx.
InScope(t) == th[t].pc \in {"i_body", "s_body", "a_store", "f_body", "l_body"}
AtRegistry(t) == th[t].pc \in {"s_body", "a_store", "f_body", "l_body"}

\* C16: in every interleaving, a thread about to read or write either index
\* (in alloc, free, shutdown or a lookup) holds the mutex, at most one
\* thread is inside a guarded scope, and a step that changes either index is
\* a step of the thread that holds the mutex.
C16_RegistrySerialized ==
    /\ [](/\ \A t \in Threads : InScope(t) => lock = t
          /\ \A t \in Threads : AtRegistry(t) => lock = t
          /\ Cardinality({t \in Threads : InScope(t)}) <= 1)
    /\ [][(by_rw' # by_rw \/ by_rx' # by_rx)
            => /\ lock \in Threads
               /\ AtRegistry(lock)
               /\ \A u \in Threads \ {lock} : th'[u] = th[u]]_vars

\* One thread is inside the guarded scope of free, about to release an open
\* record, while another waits at the lock_guard of alloc with both views
\* mapped and its record not yet stored.
C16_Witness ==
    \E t, u \in Threads :
        /\ t # u
        /\ th[t].pc = "f_body"
        /\ lock = t
        /\ th[u].pc = "a_lock"
        /\ th[t].rw \in DOMAIN by_rw

\* C19: a flush step changes neither the mutex, nor either index, nor the
\* lifecycle flag, nor the page size, and a thread inside flush can always
\* take its step, whoever holds the mutex.
C19_FlushTakesNoLock ==
    /\ [](\A t \in Threads : th[t].pc = "fl_body" => ENABLED FlushBody(t))
    /\ [][\A t \in Threads :
            (th[t].op = "flush" /\ th'[t] # th[t])
               => UNCHANGED <<lock, by_rw, by_rx, g_initialized,
                              g_page_size, vm, fds>>]_vars

\* A thread has run flush to its end while another thread is inside the
\* guarded scope of shutdown.
C19_Witness ==
    \E t, u \in Threads :
        /\ th[t].pc = "fl_done"
        /\ th[u].pc = "s_body"
        /\ lock = u

\* The last call ran lines 70-73: an init, or an alloc past its argument
\* check, that found g_initialized false at line 66.
LastCallProbed ==
    /\ last.pre = FALSE
    /\ \/ last.op = "init"
       \/ last.op = "alloc" /\ trace # << >>

\* C21: once a page size is cached (by the first init, alloc or page_size),
\* no later call of init, shutdown, alloc or page_size, nor any other call,
\* asks the OS for the page size again or changes the cached value, and an
\* alloc that stores a record rounds with the cached value.
C21_PageSizeProbedOnce ==
    [][g_page_size # 0
         => /\ g_page_size' = g_page_size
            /\ ~LastCallProbed'
            /\ (last'.op = "alloc" /\ last'.ret = 0)
                  => by_rw'[last'.rw].size
                        = round_up_to_page(last'.size, g_page_size)]_vars

\* The calls that take g_jit_mutex.
LockingOps == {"init", "shutdown", "alloc", "free", "rw_to_rx", "rx_to_rw"}

ViewPages(r) ==
    PagesOf(r.rw_ptr, r.size, os_page) \cup PagesOf(r.rx_ptr, r.size, os_page)

\* No thread is inside a call.
Quiescent == \A t \in Threads : th[t].pc = "idle"

\* C23: whenever no operation is in progress, the open handles made here are
\* exactly the handles of the records, one per record; the mapped pages made
\* here are exactly the pages of the records' two views, each showing its
\* record's handle; and the two views of a record are different pages.
C23_RegistryOwnsResources ==
    Quiescent =>
        /\ fds = {r.fd : r \in Records}
        /\ Cardinality(fds) = Cardinality(Records)
        /\ DOMAIN vm = UNION {ViewPages(r) : r \in Records}
        /\ \A r \in Records :
              /\ \A p \in ViewPages(r) : vm[p] = r.fd
              /\ PagesOf(r.rw_ptr, r.size, os_page)
                    \cap PagesOf(r.rx_ptr, r.size, os_page) = {}
              /\ PagesOf(r.rw_ptr, r.size, os_page) # {}

\* A free has just released one record's handle and views while another
\* record stays open.
C23_Witness ==
    /\ last.op = "free"
    /\ last.rec # NoRec
    /\ last.rec.fd \notin fds
    /\ Records # {}
    /\ Len(trace) = 3

\* The positions of the calls named c in a trace.
CallsAt(tr, c) == {i \in 1..Len(tr) : tr[i].c = c}

\* C24: an alloc that gets past its argument check first creates the memfd,
\* then sizes it, then maps the first view, then the second: when the
\* memfd cannot be created nothing else is called, when it cannot be sized
\* no mmap is called at all, and in both cases the call fails; no mmap
\* comes before the resize; and a step of alloc puts a record into the
\* indexes only when both mmap calls have succeeded, the first giving the
\* record's writable base and the second its executable base.
C24_AllocStepOrder ==
    /\ []((last.op = "alloc" /\ trace # << >>) =>
            /\ trace[1].c = "memfd_create"
            /\ CallsAt(trace, "memfd_create") = {1}
            /\ trace[1].r = -1 => (Len(trace) = 1 /\ last.ret = -1)
            /\ trace[1].r # -1 =>
                  /\ Len(trace) >= 2
                  /\ trace[2].c = "ftruncate"
                  /\ CallsAt(trace, "ftruncate") = {2}
                  /\ trace[2].r = -1 =>
                        /\ CallsAt(trace, "mmap") = {}
                        /\ last.ret = -1
                  /\ \A i \in CallsAt(trace, "mmap") : i \in {3, 4}
                  /\ 4 \in CallsAt(trace, "mmap")
                        => (3 \in CallsAt(trace, "mmap")
                            /\ trace[3].r # MAP_FAILED))
    /\ [][(last'.op = "alloc" /\ (by_rw' # by_rw \/ by_rx' # by_rx)) =>
            /\ CallsAt(trace', "mmap") = {3, 4}
            /\ trace'[3].r # MAP_FAILED
            /\ trace'[4].r # MAP_FAILED
            /\ trace'[1].r # -1
            /\ trace'[2].r # -1
            /\ DOMAIN by_rw' = DOMAIN by_rw \cup {trace'[3].r}
            /\ by_rw'[trace'[3].r] =
                  JitAllocation(trace'[3].r, trace'[4].r, trace'[2].n,
                                trace'[1].r)
            /\ by_rx' = MapPut(by_rx, trace'[4].r, trace'[3].r)
            /\ last'.ret = 0]_vars

\* An alloc has failed at the resize of its memfd, with room left for both
\* views and a record open.
C24_Witness ==
    /\ last.op = "alloc"
    /\ Len(trace) >= 2
    /\ trace[2].c = "ftruncate"
    /\ trace[2].r = -1
    /\ MmapChoices(vm, trace[2].n, os_page) # {}
    /\ Records # {}

\* C25: whenever the mutex is free, both indexes have the same number of
\* entries; every entry of the writable index is keyed by the rw_ptr of its
\* record; every entry of the executable index refers to an entry that is in
\* the writable index; and each record has exactly one entry in the
\* executable index, keyed by the record's rx_ptr.
C25_IndexesConsistent ==
    lock = NoThread =>
        /\ Cardinality(DOMAIN by_rx) = Cardinality(DOMAIN by_rw)
        /\ \A k \in DOMAIN by_rw : by_rw[k].rw_ptr = k
        /\ \A x \in DOMAIN by_rx : by_rx[x] \in DOMAIN by_rw
        /\ \A k \in DOMAIN by_rw :
              {x \in DOMAIN by_rx : by_rx[x] = k} = {by_rw[k].rx_ptr}

\* Two records are open whose executable bases are in the opposite order of
\* their writable bases, the second just stored by an alloc.
C25_Witness ==
    \E r, q \in Records :
        /\ r.rw_ptr < q.rw_ptr
        /\ q.rx_ptr < r.rx_ptr
        /\ last.op = "alloc"
        /\ last.ret = 0
        /\ last.rw = q.rw_ptr

\* The address lies in a page that is mapped and shows the memfd fd.
MappedTo(a, fd) ==
    /\ PageOf(a, os_page) \in DOMAIN vm
    /\ vm[PageOf(a, os_page)] = fd

\* C26: a lookup that runs while other threads free or shut down sees, in
\* the state it reads, each address either translate in both directions or
\* in neither: an address the writable-side lookup resolves is inside the
\* writable range of an open record, comes back from the executable-side
\* lookup of the result, and the result lies in a mapped page of that
\* record's executable view; and the same the other way round.  An address
\* in no open range of a side is not found on that side.
C26_DestructionAtomic ==
    \A t \in Threads :
        th[t].pc = "l_body" =>
            /\ lock = t
            /\ \A a \in Word \ {NULL} :
                  /\ rw_to_rx(a) # NULL =>
                        /\ rx_to_rw(rw_to_rx(a)) = a
                        /\ \E r \in Records :
                              /\ InRange(a, r.rw_ptr, r.size)
                              /\ InRange(rw_to_rx(a), r.rx_ptr, r.size)
                              /\ MappedTo(a, r.fd)
                              /\ MappedTo(rw_to_rx(a), r.fd)
                  /\ rx_to_rw(a) # NULL =>
                        /\ rw_to_rx(rx_to_rw(a)) = a
                        /\ \E r \in Records :
                              /\ InRange(a, r.rx_ptr, r.size)
                              /\ InRange(rx_to_rw(a), r.rw_ptr, r.size)
                              /\ MappedTo(a, r.fd)
                              /\ MappedTo(rx_to_rw(a), r.fd)
                  /\ PageOf(a, os_page) \notin DOMAIN vm =>
                        /\ rw_to_rx(a) = NULL
                        /\ rx_to_rw(a) = NULL

\* A thread holds the mutex inside a lookup of a writable base that another
\* call has freed and unmapped since the lookup was entered, while a second
\* thread is inside alloc with both of its views mapped.
C26_Witness ==
    \E t, u \in Threads :
        /\ th[t].pc = "l_body"
        /\ th[t].op = "rw_to_rx"
        /\ th[t].rw \notin DOMAIN by_rw
        /\ PageOf(th[t].rw, os_page) \notin DOMAIN vm
        /\ th[u].pc = "a_lock"

\* C27: no step changes a field of a record that is in the registry before
\* and after it, in either index; a record leaves the registry only in a
\* free that found it under its own writable base or in a shutdown, and
\* enters it only in a successful alloc; init, the lookups, flush and
\* page_size leave both indexes as they are.
C27_RecordsImmutable ==
    [][/\ \A k \in DOMAIN by_rw \cap DOMAIN by_rw' : by_rw'[k] = by_rw[k]
       /\ \A x \in DOMAIN by_rx \cap DOMAIN by_rx' : by_rx'[x] = by_rx[x]
       /\ \A k \in DOMAIN by_rw \ DOMAIN by_rw' :
             \/ last'.op = "shutdown"
             \/ (last'.op = "free" /\ last'.rec = by_rw[k] /\ last'.rw = k)
       /\ \A k \in DOMAIN by_rw' \ DOMAIN by_rw :
             last'.op = "alloc" /\ last'.ret = 0 /\ last'.rw = k
       /\ last'.op \in {"init", "rx_to_rw", "rw_to_rx", "flush", "page_size"}
             => UNCHANGED <<by_rw, by_rx>>]_vars

\* A second region has just been allocated while the record of the first,
\* made with an earlier handle, is in the registry.
C27_Witness ==
    /\ last.op = "alloc"
    /\ last.ret = 0
    /\ Cardinality(Records) = 2
    /\ \E r \in Records :
          /\ r.rw_ptr # last.rw
          /\ r.fd < by_rw[last.rw].fd

\* The addresses base .. base + size - 1.
RangeOf(base, size) == base..(base + size - 1)

\* C28: every record has two different non-null bases, a size that is
\* positive and a multiple of the cached page size, an open handle, and two
\* ranges that end inside the address space, do not meet each other and
\* meet no range of another record.
C28_RecordWellFormed ==
    \A r \in Records :
        /\ r.rw_ptr # r.rx_ptr
        /\ r.rw_ptr # NULL
        /\ r.rx_ptr # NULL
        /\ r.size > 0
        /\ g_page_size > 0
        /\ r.size % g_page_size = 0
        /\ r.fd >= 0
        /\ r.fd \in fds
        /\ r.rw_ptr + r.size < WordMod
        /\ r.rx_ptr + r.size < WordMod
        /\ RangeOf(r.rw_ptr, r.size) \cap RangeOf(r.rx_ptr, r.size) = {}
        /\ \A q \in Records \ {r} :
              (RangeOf(r.rw_ptr, r.size) \cup RangeOf(r.rx_ptr, r.size))
                 \cap (RangeOf(q.rw_ptr, q.size) \cup RangeOf(q.rx_ptr, q.size))
              = {}

\* Two records are open, the executable range of one ending exactly where
\* the writable range of the other begins.
C28_Witness ==
    \E r, q \in Records :
        /\ r # q
        /\ r.rx_ptr + r.size = q.rw_ptr
        /\ g_initialized

\* C29: in every state in which g_initialized is false and no thread is
\* inside a call, both indexes are empty and no view or handle made here is
\* left, also after an alloc that ran together with a shutdown.
C29_UninitializedIsEmpty ==
    (Quiescent /\ ~g_initialized) =>
        /\ by_rw = Empty
        /\ by_rx = Empty
        /\ vm = Empty
        /\ fds = {}

\* C30: an alloc with valid output slots (one that makes a system call)
\* entered with g_initialized false leaves the subsystem initialized with a
\* page size cached, whether it succeeds or fails, and the length it sizes
\* its memfd to is the request rounded with that page size, so the init came
\* before the rounding; an alloc that finds the subsystem initialized leaves
\* it so; an alloc with a null slot changes neither the flag nor the page
\* size.
C30_AllocInitializesFirst ==
    [][last'.op = "alloc" =>
         IF trace' = << >>
         THEN UNCHANGED <<g_initialized, g_page_size>>
         ELSE /\ g_initialized'
              /\ g_page_size' # 0
              /\ g_page_size' \in {ProbedPageSize(p) : p \in ProbeValues(os_page)}
              /\ g_initialized => g_page_size' = g_page_size
              /\ Len(trace') >= 2 =>
                    trace'[2].n = round_up_to_page(last'.size, g_page_size')
              /\ last'.ret = 0 =>
                    by_rw'[last'.rw].size
                       = round_up_to_page(last'.size, g_page_size')]_vars

\* An alloc entered with the subsystem uninitialized has failed at its
\* first mapping, after sizing its memfd to a page, and the subsystem is
\* initialized.
C30_Witness ==
    /\ last.op = "alloc"
    /\ last.pre = FALSE
    /\ last.ret = -1
    /\ Len(trace) >= 3
    /\ trace[2].n = g_page_size
    /\ trace[3].r = MAP_FAILED
    /\ g_initialized

\* The calls of a trace from position i on release only what is there: m
\* is the set of mapped pages and open the set of open handles when call i
\* is made; a munmap takes away pages that are all mapped, a close a handle
\* that is open.
RECURSIVE ReleasesLive(_, _, _, _)
ReleasesLive(tr, i, m, open) ==
    IF i > Len(tr) THEN TRUE
    ELSE CASE tr[i].c = "memfd_create" ->
                ReleasesLive(tr, i + 1, m,
                             IF tr[i].r >= 0 THEN open \cup {tr[i].r}
                             ELSE open)
           [] tr[i].c = "mmap" ->
                ReleasesLive(tr, i + 1,
                             IF tr[i].r # MAP_FAILED
                             THEN m \cup PagesOf(tr[i].r, tr[i].n, os_page)
                             ELSE m,
                             open)
           [] tr[i].c = "munmap" ->
                /\ PagesOf(tr[i].a, tr[i].n, os_page) # {}
                /\ PagesOf(tr[i].a, tr[i].n, os_page) \subseteq m
                /\ ReleasesLive(tr, i + 1,
                                m \ PagesOf(tr[i].a, tr[i].n, os_page), open)
           [] tr[i].c = "close" ->
                /\ tr[i].a \in open
                /\ ReleasesLive(tr, i + 1, m, open \ {tr[i].a})
           [] OTHER -> ReleasesLive(tr, i + 1, m, open)

TouchesFlag(t) == th[t].pc \in {"a_chk", "i_body", "s_body"}
WritesFlag(t) ==
    \/ th[t].pc = "i_body" /\ ~g_initialized
    \/ th[t].pc = "s_body"

\* The same for g_page_size: line 118 (a_map), lines 283-289 (p_body),
\* lines 70-73 (i_body).
TouchesPageSize(t) ==
    \/ th[t].pc \in {"a_map", "p_body"}
    \/ th[t].pc = "i_body" /\ ~g_initialized
WritesPageSize(t) ==
    \/ th[t].pc = "i_body" /\ ~g_initialized
    \/ th[t].pc = "p_body" /\ g_page_size = 0

\* C32: a thread about to read or write g_initialized or g_page_size holds
\* the mutex, and no thread is about to read or write one of the two while
\* another thread is about to write the same one.
C32_FlagAndPageSizeUnderLock ==
    /\ \A t \in Threads :
          (TouchesFlag(t) \/ TouchesPageSize(t)) => lock = t
    /\ \A t, u \in Threads :
          t # u => /\ ~(TouchesFlag(t) /\ WritesFlag(u))
                   /\ ~(TouchesPageSize(t) /\ WritesPageSize(u))

\* The threads inside alloc that have mapped both views and have not yet
\* returned.
Mapped2(t) == th[t].op = "alloc" /\ th[t].pc \in {"a_lock", "a_store"}

\* C33: two threads inside alloc with both views mapped hold different
\* handles and four different bases, none of them a key of either index;
\* and the step in which such a thread stores its record and returns adds
\* exactly that record, under its writable base in one index and under its
\* executable base in the other, keeps every entry that was there, and
\* leaves the returned pair translating to itself in both directions.
C33_NoLostAllocation ==
    /\ [](\A t \in Threads :
            Mapped2(t) =>
                /\ th[t].rw # th[t].rx
                /\ th[t].rw \notin DOMAIN by_rw
                /\ th[t].rx \notin DOMAIN by_rx
                /\ \A u \in Threads \ {t} :
                      Mapped2(u) =>
                          /\ {th[t].rw, th[t].rx} \cap {th[u].rw, th[u].rx} = {}
                          /\ th[t].fd # th[u].fd)
    /\ [][\A t \in Threads :
            (th[t].pc = "a_store" /\ th'[t].pc = "idle") =>
                /\ DOMAIN by_rw' = DOMAIN by_rw \cup {th[t].rw}
                /\ DOMAIN by_rx' = DOMAIN by_rx \cup {th[t].rx}
                /\ \A k \in DOMAIN by_rw : by_rw'[k] = by_rw[k]
                /\ \A x \in DOMAIN by_rx : by_rx'[x] = by_rx[x]
                /\ by_rw'[th[t].rw] =
                      JitAllocation(th[t].rw, th[t].rx, th[t].len, th[t].fd)
                /\ by_rx'[th[t].rx] = th[t].rw
                /\ RwToRxIn(by_rw', th[t].rw) = th[t].rx
                /\ RxToRwIn(by_rw', by_rx', th[t].rx) = th[t].rw]_vars

\* One thread is about to store its record while another, which entered
\* alloc before the first had stored, waits at the lock_guard with its own
\* two views mapped; the registry is still empty.
C33_Witness ==
    \E t, u \in Threads :
        /\ t # u
        /\ th[t].pc = "a_store"
        /\ th[u].pc = "a_lock"
        /\ th[u].op = "alloc"
        /\ by_rw = Empty
        /\ g_initialized

\* The record b with everything it owns, in the state after a step: its
\* entry in both indexes, every page of both views mapped to its handle as
\* before, the handle open, and both bases translating to each other.
IntactAfter(b) ==
    /\ b.rw_ptr \in DOMAIN by_rw' /\ by_rw'[b.rw_ptr] = b
    /\ b.rx_ptr \in DOMAIN by_rx' /\ by_rx'[b.rx_ptr] = b.rw_ptr
    /\ \A p \in ViewPages(b) :
          p \in DOMAIN vm /\ p \in DOMAIN vm' /\ vm'[p] = vm[p] /\ vm'[p] = b.fd
    /\ b.fd \in fds'
    /\ RwToRxIn(by_rw', b.rw_ptr) = b.rx_ptr
    /\ RxToRwIn(by_rw', by_rx', b.rx_ptr) = b.rw_ptr

\* The record a with nothing left of it in the state after a step.
GoneAfter(a) ==
    /\ a.rw_ptr \notin DOMAIN by_rw'
    /\ a.rx_ptr \notin DOMAIN by_rx'
    /\ \A p \in ViewPages(a) : p \notin DOMAIN vm'
    /\ a.fd \notin fds'
    /\ RwToRxIn(by_rw', a.rw_ptr) = NULL
    /\ RxToRwIn(by_rw', by_rx', a.rx_ptr) = NULL

\* C34: a free handed the writable base of one open record and the
\* executable base of another removes the first with both views, handle and
\* both index entries, and leaves the second as it was: record, index
\* entries, mappings, handle and translation in both directions.
C34_CrossedFreeSparesOther ==
    [][\A a, b \in Records :
          (/\ a # b
           /\ last'.op = "free"
           /\ last'.rw = a.rw_ptr
           /\ last'.rx = b.rx_ptr)
            => GoneAfter(a) /\ IntactAfter(b)]_vars

\* A free was handed the writable base of the record it released and the
\* executable base of a record that is open with both of its views mapped.
C34_Witness ==
    /\ last.op = "free"
    /\ last.rec # NoRec
    /\ last.rw = last.rec.rw_ptr
    /\ \E b \in Records :
          /\ b.rx_ptr = last.rx
          /\ b.rx_ptr # last.rec.rx_ptr
          /\ \A p \in ViewPages(b) : p \in DOMAIN vm /\ vm[p] = b.fd
          /\ rx_to_rw(b.rx_ptr) = b.rw_ptr
    /\ rw_to_rx(last.rw) = NULL

\* The bases an operation mapped and unmapped again within its own calls.
RolledBack(tr) ==
    {tr[i].r : i \in {j \in 1..Len(tr) :
                         /\ tr[j].c = "mmap"
                         /\ tr[j].r # MAP_FAILED
                         /\ \E k \in (j + 1)..Len(tr) :
                               tr[k].c = "munmap" /\ tr[k].a = tr[j].r}}

\* C35: after an alloc that went past the null-slot check, the two slots
\* tell the outcome.  With return 0 they hold two non-null bases that were
\* not recorded before and are now the writable and the executable base of
\* one record, present in both indexes with both views mapped.  With return
\* -1 both are null, and in either case no slot holds a base the call mapped
\* and unmapped again.
C35_SlotsReflectOutcome ==
    [][(last'.op = "alloc" /\ trace' # << >>) =>
          /\ last'.ret \in {0, -1}
          /\ last'.rw \notin RolledBack(trace')
          /\ last'.rx \notin RolledBack(trace')
          /\ last'.ret = 0 =>
                /\ last'.rw # NULL /\ last'.rx # NULL
                /\ RolledBack(trace') = {}
                /\ last'.rw \notin DOMAIN by_rw
                /\ last'.rw \in DOMAIN by_rw'
                /\ by_rw'[last'.rw].rw_ptr = last'.rw
                /\ by_rw'[last'.rw].rx_ptr = last'.rx
                /\ last'.rx \in DOMAIN by_rx'
                /\ by_rx'[last'.rx] = last'.rw
                /\ \A p \in PagesOf(last'.rw, by_rw'[last'.rw].size, os_page)
                        \cup PagesOf(last'.rx, by_rw'[last'.rw].size, os_page) :
                      p \in DOMAIN vm' /\ vm'[p] = by_rw'[last'.rw].fd
          /\ last'.ret = -1 =>
                /\ last'.rw = NULL /\ last'.rx = NULL
                /\ by_rw' = by_rw]_vars

\* An alloc has failed after it had mapped the writable view: the base it
\* mapped and unmapped again is in neither slot, both of which are null.
C35_Witness ==
    /\ last.op = "alloc"
    /\ last.ret = -1
    /\ RolledBack(trace) # {}
    /\ last.rw = NULL
    /\ last.rx = NULL
    /\ \A a \in RolledBack(trace) : PageOf(a, os_page) \notin DOMAIN vm

\* The requests whose size + g_page_size - 1 does not fit the word.
Wraps(size, page) == size + page - 1 >= WordMod

\* C36: rounding never yields a region smaller than asked for.  Over the
\* whole word, with the page size in use, the rounded size is a multiple of
\* the page that is at least the request, except where the sum wraps, and
\* there it is zero and nothing else.  An alloc that returned 0 recorded a
\* size that is no smaller than its request, which therefore did not wrap;
\* an alloc whose sum wrapped went past creating the backing store only to
\* fail at the first mmap, of length zero, and recorded nothing.
C36_RoundingNeverShrinks ==
    /\ g_page_size # 0 =>
          \A size \in 0..(WordMod - 1) :
             LET r == round_up_to_page(size, g_page_size) IN
             /\ r % g_page_size = 0
             /\ IF Wraps(size, g_page_size) THEN r = 0 ELSE r >= size
             /\ r < size => r = 0
    /\ (last.op = "alloc" /\ last.ret = 0) =>
          /\ last.rw \in DOMAIN by_rw
          /\ by_rw[last.rw].size >= last.size
          /\ by_rw[last.rw].size > 0
          /\ ~Wraps(last.size, g_page_size)
    /\ (last.op = "alloc" /\ trace # << >>
           /\ Wraps(last.size, g_page_size)) =>
          /\ last.ret = -1
          /\ \A r \in Records : r.size # 0
          /\ \A i \in 1..Len(trace) :
                /\ trace[i].c = "mmap" => trace[i].n = 0 /\ trace[i].r = MAP_FAILED
                /\ trace[i].c = "ftruncate" => trace[i].n = 0

\* An alloc of the largest size of the word has sized its backing store to
\* zero and failed at the first mmap.
C36_Witness ==
    /\ last.op = "alloc"
    /\ last.size = WordMod - 1
    /\ last.ret = -1
    /\ Len(trace) >= 3
    /\ trace[2].c = "ftruncate" /\ trace[2].n = 0 /\ trace[2].r = 0
    /\ trace[3].c = "mmap" /\ trace[3].n = 0 /\ trace[3].r = MAP_FAILED

IsPowerOfTwo(n) == \E k \in 0..(AddrBits - 1) : n = 2^k

\* C37: whenever the subsystem is Initialized, and whenever page_size has
\* just returned, the cached page size is a positive power of two: the
\* page size the system reported, or the fallback when the probe failed or
\* reported nothing usable; and page_size returns the cached value, never 0.
C37_PageSizeUsable ==
    /\ (g_initialized \/ last.op = "page_size") =>
          /\ g_page_size > 0
          /\ IsPowerOfTwo(g_page_size)
          /\ g_page_size \in {os_page, FallbackPageSize}
    /\ last.op = "page_size" =>
          /\ last.ret = g_page_size
          /\ last.ret # 0

\* C38: free does not read its size argument.  When it is handed a recorded
\* writable base, whatever the size, each view is unmapped over the
\* recorded length, and the state it leaves is a function of the state
\* before and of that base alone: exactly the pages of the record's two
\* views leave the address space, the others stay as they were, the
\* record's handle is closed, and the record leaves both indexes.
C38_FreeIgnoresSize ==
    [][(last'.op = "free" /\ last'.rw \in DOMAIN by_rw) =>
          LET alloc == by_rw[last'.rw] IN
          /\ \A i \in 1..Len(trace') :
                trace'[i].c = "munmap" =>
                   /\ trace'[i].n = alloc.size
                   /\ trace'[i].a \in {alloc.rw_ptr, alloc.rx_ptr}
          /\ Cardinality({i \in 1..Len(trace') : trace'[i].c = "munmap"}) = 2
          /\ DOMAIN vm' = DOMAIN vm \ ViewPages(alloc)
          /\ \A p \in DOMAIN vm' : vm'[p] = vm[p]
          /\ fds' = fds \ {alloc.fd}
          /\ by_rw' = MapErase(by_rw, alloc.rw_ptr)
          /\ by_rx' = MapErase(by_rx, alloc.rx_ptr)
          /\ last'.rec = alloc]_vars

\* A free that was handed a size one byte beyond the recorded one has
\* released its record while another record stays open, its views mapped.
C38_Witness ==
    /\ last.op = "free"
    /\ last.rec # NoRec
    /\ last.size = last.rec.size + 1
    /\ last.rw \notin DOMAIN by_rw
    /\ \E b \in Records : \A p \in ViewPages(b) : p \in DOMAIN vm
====
